--------------------------- MODULE TrafficControl ---------------------------
(***************************************************************************)
(* The client's shaping of outgoing flows with the Linux tc command        *)
(* (src/client/TrafficControlManager.{h,cpp}): one HTB class and one       *)
(* filter for each local port, the class id and the filter's prio being    *)
(* the port itself.  The kernel's tables are the state; popen failures,    *)
(* which the code prints and ignores, are not modelled.                    *)
(***************************************************************************)
EXTENDS Naturals

CONSTANTS Ports, Rates

DefaultClass == 0   \* class 1:2, where packets no filter matches go

VARIABLES
  tcClass,   \* tcClass[p]: the rate of class 1:p, 0 while there is none
  tcFilter   \* tcFilter[p]: the class that source port p is sent to

TcTypeOK ==
  /\ tcClass \in [Ports -> Rates \cup {0}]
  /\ tcFilter \in [Ports -> Ports \cup {DefaultClass}]

InitTC ==
  /\ tcClass = [p \in Ports |-> 0]
  /\ tcFilter = [p \in Ports |-> DefaultClass]

AddTcClass(class_id, bandwidth) == tcClass' = [tcClass EXCEPT ![class_id] = bandwidth]

\* Mutant: the old filter is deleted after the new one was added.
DeleteLast(ip_port) == [tcFilter EXCEPT ![ip_port] = DefaultClass]

\* deleteTcFilter, then addTcFilter: the last one decides.
ReplaceFilter(ip_port) == [tcFilter EXCEPT ![ip_port] = ip_port]

\* A bandwidth of 0 changes nothing: the port keeps what it had.
SetIpPortBandwidth(ip_port, bandwidth) ==
  IF bandwidth = 0
    THEN UNCHANGED <<tcClass, tcFilter>>
    ELSE /\ AddTcClass(ip_port, bandwidth)
         /\ tcFilter' = ReplaceFilter(ip_port)

\* The rate that HTB holds packets from ip_port to; 0 for the default class.
RateOf(ip_port) ==
  IF tcFilter[ip_port] = DefaultClass THEN 0 ELSE tcClass[tcFilter[ip_port]]
=============================================================================
