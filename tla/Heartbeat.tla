------------------------------ MODULE Heartbeat ------------------------------
(***************************************************************************)
(* The two clocks of a session.  The client sends a heartbeat in every     *)
(* interval (client.rs:174-196); the controller gives up when one round of *)
(* its select! has waited ten intervals for a message of the client        *)
(* (controller.rs:103-136).  Time passes in units of the interval's.       *)
(*                                                                         *)
(* Every round starts the timer anew, whatever ended the last one: a       *)
(* heartbeat, a visitor, or a data connection.                             *)
(***************************************************************************)
EXTENDS Naturals, Sequences

CONSTANTS
  Interval,     \* heartbeat_interval
  MaxMillis,    \* the largest u64
  MaxLate,      \* how late the client may send a heartbeat that is due
  MaxDelay,     \* how long a message may be on its way
  MaxRounds,    \* bound: rounds that something else ends, between heartbeats
  MaxBlocked,   \* bound: time spent in writes, between heartbeats
  MaxBacklog    \* bound: heartbeats that a write may leave unread

(* interval * 10, in 64 bits as a release build computes it.               *)
Timeout == (Interval * 10) % (MaxMillis + 1)

HeartbeatAssumption ==
  /\ Interval \in Nat \ {0} /\ MaxMillis \in Nat
  /\ MaxLate \in Nat /\ MaxDelay \in Nat
  /\ MaxRounds \in Nat /\ MaxBlocked \in Nat /\ MaxBacklog \in Nat
ASSUME HeartbeatAssumption

(* How slow a client and a network may be that are not given up.  The last *)
(* message of the handshake and the first heartbeat both take their time.  *)
PunctualAssumption == Interval + MaxLate + 2 * MaxDelay < Timeout
ASSUME PunctualAssumption

VARIABLES
  client,       \* "joining" until AcceptConfig is there, "up", or "gone":
                \* the process or its link
  due,          \* the time since the session began, or since the last tick
  flight,       \* how long each heartbeat has been on its way
  arrived,      \* heartbeats that the controller has not read yet
  controller,   \* "select", "writing" to the client, "timed out", "failed"
  timer,        \* how long the round has been waiting
  silent,       \* the time since the controller read a heartbeat
  rounds,       \* the rounds that something else ended since then
  blocked       \* the time spent in writes since then

vars == <<client, due, flight, arrived, controller, timer, silent, rounds, blocked>>

Init ==
  /\ client = "joining" /\ due = 0
  /\ flight = <<>> /\ arrived = 0
  /\ controller = "select" /\ timer = 0
  /\ silent = 0 /\ rounds = 0 /\ blocked = 0

----------------------------------------------------------------------------
(* The client.                                                             *)

(* exec_with_heartbeat begins; the first tick of the interval is at once.  *)
Join ==
  /\ client = "joining"
  /\ client' = "up" /\ due' = 0
  /\ UNCHANGED <<flight, arrived, controller, timer, silent, rounds, blocked>>

(* MissedTickBehavior::Delay: the next tick is an interval after this one. *)
SendHeartbeat ==
  /\ client = "up" /\ due >= Interval
  /\ due' = 0
  /\ flight' = Append(flight, 0)
  /\ UNCHANGED <<client, arrived, controller, timer, silent, rounds, blocked>>

(* What is on its way may still arrive, or not.                            *)
Vanish ==
  /\ client # "gone"
  /\ client' = "gone"
  /\ flight' \in {flight, <<>>}
  /\ UNCHANGED <<due, arrived, controller, timer, silent, rounds, blocked>>

Arrive ==
  /\ flight # <<>>
  /\ flight' = Tail(flight)
  /\ arrived' = arrived + 1
  /\ UNCHANGED <<client, due, controller, timer, silent, rounds, blocked>>

----------------------------------------------------------------------------
(* The controller, in main_loop.                                           *)

ReadHeartbeatOneTimer ==                                   \* mutant
  /\ controller = "select" /\ arrived > 0
  /\ arrived' = arrived - 1
  /\ silent' = 0 /\ rounds' = 0 /\ blocked' = 0
  /\ UNCHANGED <<client, due, flight, controller, timer>>
ReadHeartbeat ==
  /\ controller = "select" /\ arrived > 0
  /\ arrived' = arrived - 1
  /\ timer' = 0 /\ silent' = 0 /\ rounds' = 0 /\ blocked' = 0
  /\ UNCHANGED <<client, due, flight, controller>>

(* tokio::time::timeout polls the read before its clock.                   *)
ExpiredLate == timer > Timeout                             \* mutant
Expired == timer >= Timeout

HeartbeatTimeout ==
  /\ controller = "select" /\ Expired /\ arrived = 0
  /\ controller' = "timed out"
  /\ UNCHANGED <<client, due, flight, arrived, timer, silent, rounds, blocked>>

(* A data connection, or the Error of a monitor, ends the round.           *)
OtherRound ==
  /\ controller = "select" /\ rounds < MaxRounds
  /\ rounds' = rounds + 1 /\ timer' = 0
  /\ UNCHANGED <<client, due, flight, arrived, controller, silent, blocked>>

(* A visitor does, and the client is told.  Nothing is read meanwhile, and *)
(* nothing limits the write.                                               *)
NewChannel ==
  /\ controller = "select" /\ rounds < MaxRounds /\ arrived <= MaxBacklog
  /\ controller' = "writing"
  /\ rounds' = rounds + 1 /\ timer' = 0
  /\ UNCHANGED <<client, due, flight, arrived, silent, blocked>>

Written ==
  /\ controller = "writing"
  /\ \/ controller' = "select"
     \/ client = "gone" /\ controller' = "failed"
  /\ UNCHANGED <<client, due, flight, arrived, timer, silent, rounds, blocked>>

----------------------------------------------------------------------------
(* A unit of time passes, unless something has to happen first: a select!  *)
(* that has a message to read does not wait.                               *)

Tick ==
  /\ controller \in {"select", "writing"}
  /\ client = "joining" => due < MaxDelay
  /\ client = "up" => due < Interval + MaxLate
  /\ \A i \in 1 .. Len(flight) : flight[i] < MaxDelay
  /\ due' = IF client = "gone" THEN due ELSE due + 1
  /\ flight' = [i \in 1 .. Len(flight) |-> flight[i] + 1]
  /\ silent' = silent + 1
  /\ \/ /\ controller = "select" /\ arrived = 0 /\ ~Expired
        /\ timer' = timer + 1 /\ UNCHANGED blocked
     \/ /\ controller = "writing" /\ blocked < MaxBlocked
        /\ blocked' = blocked + 1 /\ UNCHANGED timer
  /\ UNCHANGED <<client, arrived, controller, rounds>>

Next ==
  \/ Join \/ SendHeartbeat \/ Vanish \/ Arrive
  \/ ReadHeartbeat \/ HeartbeatTimeout \/ OtherRound \/ NewChannel \/ Written
  \/ Tick

Spec == Init /\ [][Next]_vars

----------------------------------------------------------------------------
(* Properties.                                                             *)

(* The types.                                                              *)
HeartbeatTypeOK ==
  /\ client \in {"joining", "up", "gone"}
  /\ controller \in {"select", "writing", "timed out", "failed"}
  /\ flight \in Seq(0 .. MaxDelay)
  /\ due \in Nat /\ arrived \in Nat /\ silent \in Nat
  /\ timer \in 0 .. Timeout
  /\ rounds \in 0 .. MaxRounds /\ blocked \in 0 .. MaxBlocked

(* A client that is there, however late its heartbeats and whatever else   *)
(* the controller is busy with, is never taken for dead                    *)
(* (controller.rs:109-110).                                                *)
LiveClientKept == controller = "timed out" => client = "gone"

(* A client that is gone holds its ports for ten intervals at most, and    *)
(* for ten more for each visitor and data connection since its last sign   *)
(* of life, and as long as writes to it block (controller.rs:105-136).     *)
SilenceBounded == silent <= (rounds + 1) * Timeout + blocked
=============================================================================
