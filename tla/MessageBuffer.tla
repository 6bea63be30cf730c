---------------------------- MODULE MessageBuffer ----------------------------
(***************************************************************************)
(* What a message queue promises: a buffer of at most Cap messages.  A     *)
(* message put in is a new one and goes to the end or, when it is urgent,  *)
(* to the front; the first one is taken out and, later, delivered, once.   *)
(***************************************************************************)
EXTENDS Naturals, Sequences

CONSTANTS Messages, Urgent, Cap

VARIABLES buf, fetched, delivered, seen

vars == << buf, fetched, delivered, seen >>

Init == buf = << >> /\ fetched = {} /\ delivered = {} /\ seen = {}

Put(m) ==
  /\ m \in Messages \ seen /\ Len(buf) < Cap
  /\ seen' = seen \cup {m}
  /\ buf' = IF m \in Urgent THEN << m >> \o buf ELSE Append(buf, m)
  /\ UNCHANGED << fetched, delivered >>

Fetch ==
  /\ buf # << >>
  /\ buf' = Tail(buf)
  /\ fetched' = fetched \cup {Head(buf)}
  /\ UNCHANGED << delivered, seen >>

Deliver(m) ==
  /\ m \in fetched
  /\ fetched' = fetched \ {m}
  /\ delivered' = delivered \cup {m}
  /\ UNCHANGED << buf, seen >>

Next == Fetch \/ \E m \in Messages : Put(m) \/ Deliver(m)
Spec == Init /\ [][Next]_vars
=============================================================================
