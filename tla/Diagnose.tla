------------------------------ MODULE Diagnose ------------------------------
(***************************************************************************)
(* diagnose.py: it connects, counts for a while what arrives on the socket *)
(* (udp), in QUIC events (streams and datagrams) and as telemetry (yields  *)
(* and parse errors), closes the connection and concludes from the counts  *)
(* what is wrong.  The counts are taken by callbacks and by a task, which  *)
(* go on at their own pace until the tasks are cancelled and while the     *)
(* connection is closed; the events are counted up to a snapshot.          *)
(***************************************************************************)
EXTENDS Integers, Sequences

CONSTANTS
  Addresses,  (* bound: the addresses that are tried one after the other   *)
  MaxPackets, (* bound: the packets that arrive                            *)
  Capacity,   (* _DATAGRAM_QUEUE_SIZE                                      *)
  Enough      (* OBSERVE_SECONDS * 10, the yields of healthy telemetry     *)

ASSUME DiagnoseAssumption ==
  /\ Addresses \in Nat
  /\ MaxPackets \in Nat \ {0} /\ Capacity \in Nat \ {0} /\ Enough \in Nat \ {0}

VARIABLES
  stage,      (* where main is                                             *)
  untried,    (* the addresses _sequential_handshake has yet to try        *)
  reached,    (* history: one of them answered                             *)
  negotiated, (* the controller advertises datagrams                       *)
  ending,     (* "none", or that of the connection: "unseen" by the taps,
                 or "seen", which is counts["ConnectionTerminated"]        *)
  sent,       (* udp_tap.tx_pkts > 0                                       *)
  packets,    (* udp_tap.rx_pkts                                           *)
  events,     (* counts: of streams and datagrams                          *)
  snapshot,   (* counts_observed, and whether it has ConnectionTerminated  *)
  queue,      (* of drain_telemetry: whether each datagram can be parsed   *)
  yields,     (* telemetry_yields                                          *)
  errors,     (* telemetry_parse_errors                                    *)
  lost,       (* history: the connection was lost while observed           *)
  verdicts    (* what is printed under "diagnosis", or the exit message    *)

attempts == <<untried, reached, negotiated>>
counters == <<ending, sent, packets, events, queue, yields, errors>>
diagnosis == <<stage, attempts, counters, snapshot, lost, verdicts>>

NoEvents == [streams |-> 0, datagrams |-> 0]
EventCounts == [streams : 0 .. MaxPackets, datagrams : 0 .. MaxPackets]

DiagnoseTypeOK ==
  /\ stage \in {"discover", "certs", "handshake", "sequential", "tapped", "observe",
                "closing", "report", "exit"}
  /\ untried \in 0 .. Addresses
  /\ reached \in BOOLEAN /\ negotiated \in BOOLEAN
  /\ ending \in {"none", "unseen", "seen"}
  /\ sent \in BOOLEAN /\ lost \in BOOLEAN
  /\ packets \in 0 .. MaxPackets
  /\ events \in EventCounts
  /\ snapshot \in [events : EventCounts, terminated : BOOLEAN]
  /\ queue \in Seq(BOOLEAN) /\ Len(queue) <= Capacity
  /\ yields \in 0 .. MaxPackets /\ errors \in 0 .. MaxPackets
  /\ verdicts \subseteq {"no controller", "certs invalid", "handshake failed", "torn down",
                         "nothing sent", "below quic", "not negotiated", "nothing in quic",
                         "datagrams dropped", "schema mismatch", "swallowed", "slow",
                         "healthy"}

DiagnoseInit ==
  /\ stage = "discover"
  /\ untried = 0 /\ reached = FALSE /\ negotiated = FALSE
  /\ ending = "none" /\ sent = FALSE /\ lost = FALSE
  /\ packets = 0 /\ queue = <<>> /\ yields = 0 /\ errors = 0
  /\ events = NoEvents
  /\ snapshot = [events |-> NoEvents, terminated |-> FALSE]
  /\ verdicts = {}

-----------------------------------------------------------------------------
(* Before the observation.  What the network, the files and the controller make
   of each attempt is not known. *)

Exit(verdict) == stage' = "exit" /\ verdicts' = {verdict}

(* discover_once *)
DiscoverController ==
  /\ stage = "discover"
  /\ \/ Exit("no controller")
     \/ stage' = "certs" /\ UNCHANGED verdicts
  /\ UNCHANGED <<attempts, counters, snapshot, lost>>

(* CertBundle.from_dir *)
CheckCerts ==
  /\ stage = "certs"
  /\ \/ Exit("certs invalid")
     \/ stage' = "handshake" /\ UNCHANGED verdicts
  /\ UNCHANGED <<attempts, counters, snapshot, lost>>

(* connect_controller, and the taps, before which the connection may have ended:
   connect_controller closes the attempts that lost before it returns. *)
Handshake ==
  /\ stage = "handshake"
  /\ \/ /\ stage' = "tapped"
        /\ negotiated' \in BOOLEAN
        /\ ending' \in {"none", "unseen"}
        /\ UNCHANGED untried
     \/ /\ stage' = "sequential"
        /\ untried' \in 0 .. Addresses
        /\ UNCHANGED <<negotiated, ending>>
  /\ UNCHANGED <<reached, sent, packets, events, queue, yields, errors, snapshot, lost,
                 verdicts>>

(* _sequential_handshake: an address answers or does not, which is printed. *)
SequentialHandshake ==
  /\ stage = "sequential" /\ untried > 0
  /\ untried' = untried - 1
  /\ \E ok \in BOOLEAN : reached' = (reached \/ ok)
  /\ UNCHANGED <<stage, negotiated, counters, snapshot, lost, verdicts>>

(* The exit after it, whatever it found *)
GiveUp ==
  /\ stage = "sequential" /\ untried = 0
  /\ Exit("handshake failed")
  /\ UNCHANGED <<attempts, counters, snapshot, lost>>

-----------------------------------------------------------------------------
(* The observation *)

Tapped == stage \in {"tapped", "observe", "closing"}

(* The first step of drain_telemetry.  Callbacks that are ready before it run
   between the taps and this. *)
Subscribe ==
  /\ stage = "tapped"
  /\ stage' = "observe"
  /\ UNCHANGED <<attempts, counters, snapshot, lost, verdicts>>

(* tapped_sendto: acknowledgements and keep-alives *)
PacketSent ==
  /\ Tapped /\ ending = "none"
  /\ sent' = TRUE
  /\ UNCHANGED <<stage, attempts, ending, packets, events, queue, yields, errors,
                 snapshot, lost, verdicts>>

(* tapped_recv: a packet in which there is nothing for the application *)
AckArrives ==
  /\ Tapped /\ packets < MaxPackets
  /\ packets' = packets + 1
  /\ UNCHANGED <<stage, attempts, ending, sent, events, queue, yields, errors, snapshot,
                 lost, verdicts>>

(* tapped_recv and quic_tap, with a stream *)
StreamArrives ==
  /\ Tapped /\ ending = "none" /\ packets < MaxPackets
  /\ packets' = packets + 1
  /\ events' = [events EXCEPT !.streams = @ + 1]
  /\ UNCHANGED <<stage, attempts, ending, sent, queue, yields, errors, snapshot, lost,
                 verdicts>>

(* The queue drops the oldest when it is full. *)
Enqueued(readable) == Append(IF Len(queue) = Capacity THEN Tail(queue) ELSE queue, readable)

(* tapped_recv and quic_tap, with a datagram, which goes into the queue if there is
   one.  (What is put there once the task that reads it is cancelled makes no
   difference.) *)
DatagramArrives ==
  /\ Tapped /\ ending = "none" /\ packets < MaxPackets
  /\ packets' = packets + 1
  /\ events' = [events EXCEPT !.datagrams = @ + 1]
  /\ IF stage = "observe"
     THEN \E readable \in BOOLEAN : queue' = Enqueued(readable)
     ELSE UNCHANGED queue
  /\ UNCHANGED <<stage, attempts, ending, sent, yields, errors, snapshot, lost, verdicts>>

(* drain_telemetry parses a datagram. *)
Drain ==
  /\ stage = "observe" /\ queue # <<>>
  /\ queue' = Tail(queue)
  /\ IF Head(queue)
     THEN yields' = yields + 1 /\ UNCHANGED errors
     ELSE errors' = errors + 1 /\ UNCHANGED yields
  /\ UNCHANGED <<stage, attempts, ending, sent, packets, events, snapshot, lost, verdicts>>

(* The controller ends the connection, or the idle timeout does. *)
ConnectionLost ==
  /\ stage \in {"tapped", "observe"} /\ ending = "none"
  /\ ending' = "seen"
  /\ lost' = TRUE
  /\ UNCHANGED <<stage, attempts, sent, packets, events, queue, yields, errors, snapshot,
                 verdicts>>

(* Variant: the counts are taken where they are printed. *)
StopObservingLater ==
  /\ stage = "observe"
  /\ stage' = "closing"
  /\ snapshot' = [events |-> events, terminated |-> TRUE]
  /\ UNCHANGED <<attempts, counters, lost, verdicts>>

(* The deadline: counts_observed is taken, the tasks are cancelled. *)
StopObserving ==
  /\ stage = "observe"
  /\ stage' = "closing"
  /\ snapshot' = [events |-> events, terminated |-> ending = "seen"]
  /\ UNCHANGED <<attempts, counters, lost, verdicts>>

(* __aexit__ of the connection: it says so to the controller, unless the
   connection has ended by itself, and its own end is an event as well. *)
CloseConnection ==
  /\ stage = "closing"
  /\ stage' = "report"
  /\ sent' = (sent \/ ending = "none")
  /\ ending' = IF ending = "none" THEN "seen" ELSE ending
  /\ UNCHANGED <<attempts, packets, events, queue, yields, errors, snapshot, lost, verdicts>>

-----------------------------------------------------------------------------
(* The report *)

(* The last of the conclusions, of which there is one *)
Conclusion ==
  CASE packets = 0 -> "below quic"
    [] packets > 0 /\ ~negotiated -> "not negotiated"
    [] OTHER ->
         CASE snapshot.events = NoEvents -> "nothing in quic"
           [] snapshot.events.datagrams = 0 /\ snapshot.events.streams > 0 ->
                "datagrams dropped"
           [] snapshot.events.datagrams > 0 /\ yields = 0 ->
                IF errors > 0 THEN "schema mismatch" ELSE "swallowed"
           [] OTHER -> IF yields < Enough THEN "slow" ELSE "healthy"

Report ==
  /\ stage = "report"
  /\ stage' = "exit"
  /\ verdicts' = {Conclusion} \cup {v \in {"torn down"} : snapshot.terminated}
                             \cup {v \in {"nothing sent"} : ~sent}
  /\ UNCHANGED <<attempts, counters, snapshot, lost>>

DiagnoseNext ==
  \/ DiscoverController \/ CheckCerts \/ Handshake \/ SequentialHandshake \/ GiveUp
  \/ PacketSent \/ AckArrives \/ StreamArrives \/ DatagramArrives
  \/ Subscribe \/ Drain \/ ConnectionLost \/ StopObserving \/ CloseConnection \/ Report

-----------------------------------------------------------------------------
(* Properties *)

(* The lines of the report agree with one another and with what happened while
   the program observed (diagnose.py:603-753), although the event counts are
   those of the snapshot and the other counts are read after the connection was
   closed.  A breakdown is reported if and only if there was one: the program's
   own end of the connection is no breakdown, and none is missed.  No packet was
   sent only if the connection had ended by itself.  And no telemetry was counted,
   parsed or not, where the report says that none came. *)
ReportIsTrue ==
  stage = "exit" =>
    /\ "torn down" \in verdicts <=> lost
    /\ "nothing sent" \in verdicts => lost \/ ending = "unseen"
    /\ verdicts \cap {"nothing in quic", "datagrams dropped"} # {} =>
         yields = 0 /\ errors = 0

(* "handshake failed on every path" (diagnose.py:467): no address answered, neither
   in the parallel attempt nor on its own. *)
FailedOnEveryPath == "handshake failed" \in verdicts => ~reached
=============================================================================
