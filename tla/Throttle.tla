------------------------------- MODULE Throttle -------------------------------
(***************************************************************************)
(* The rate limit of one scope and one address, kept in the memory of a    *)
(* process (internal/middleware/ratelimit.go): a counter with the moment   *)
(* its window opened, and a sweeper that forgets counters.  Both run under *)
(* one mutex and read the clock inside it.                                 *)
(***************************************************************************)
EXTENDS Integers, FiniteSets

CONSTANTS
  Rate,          \* requests a window allows
  Window,        \* its length in ticks
  Linger,        \* five minutes: how long short windows are remembered
  LastTick,      \* bound: the run ends there
  MaxRestarts    \* bound: restarts of the process

ASSUME ThrottleConstantsOK ==
  /\ Rate \in Nat \ {0} /\ Window \in Nat \ {0}
  /\ Linger \in Nat /\ LastTick \in Nat /\ MaxRestarts \in Nat

VARIABLES
  visitor,       \* the counter
  tick,          \* the clock
  restarts,      \* bounded counter
  admitted       \* history: requests let through, numbered, with their ticks

throttleVars == <<visitor, tick, restarts, admitted>>

Ticks == 0..LastTick
NoVisitor == [count |-> 0, start |-> 0]

ThrottleTypeOK ==
  /\ visitor \in [count : 0..(Rate + 1), start : Ticks]
  /\ tick \in Ticks /\ restarts \in 0..MaxRestarts
  /\ admitted \subseteq [at : Ticks, no : Nat]

(* The window of the counter has passed, or there is none. *)
Over == visitor = NoVisitor \/ tick - visitor.start >= Window

Admit == admitted' = admitted \cup {[at |-> tick, no |-> Cardinality(admitted)]}

(* Mutant: the boundary of a window is let through twice. *)
Allow_OffByOne ==
  /\ visitor.count <= Rate
  /\ IF Over
       THEN visitor' = [count |-> 0, start |-> tick] /\ Admit
       ELSE /\ visitor' = [visitor EXCEPT !.count = @ + 1]
            /\ IF visitor.count + 1 <= Rate THEN Admit ELSE UNCHANGED admitted
  /\ UNCHANGED <<tick, restarts>>

(* A request.  Of those a window refuses, the first only is counted: the   *)
(* others change nothing that is ever looked at.                           *)
Allow ==
  /\ Over \/ visitor.count <= Rate
  /\ IF Over
       THEN visitor' = [count |-> 1, start |-> tick] /\ Admit
       ELSE /\ visitor' = [visitor EXCEPT !.count = @ + 1]
            /\ IF visitor.count + 1 <= Rate THEN Admit ELSE UNCHANGED admitted
  /\ UNCHANGED <<tick, restarts>>

(* Mutant: the sweeper has one threshold for every window. *)
cleanup_Flat ==
  /\ visitor # NoVisitor /\ tick - visitor.start > Linger
  /\ visitor' = NoVisitor
  /\ UNCHANGED <<tick, restarts, admitted>>

(* The sweeper forgets a counter, but not while its window is running.     *)
cleanup ==
  /\ visitor # NoVisitor
  /\ tick - visitor.start > Window /\ tick - visitor.start > Linger
  /\ visitor' = NoVisitor
  /\ UNCHANGED <<tick, restarts, admitted>>

Tick ==
  /\ tick < LastTick /\ tick' = tick + 1
  /\ UNCHANGED <<visitor, restarts, admitted>>

(* The memory of the process is lost. *)
Restart ==
  /\ restarts < MaxRestarts /\ restarts' = restarts + 1
  /\ visitor' = NoVisitor
  /\ UNCHANGED <<tick, admitted>>

ThrottleInit ==
  /\ visitor = NoVisitor /\ tick = 0 /\ restarts = 0
  /\ admitted = {}

ThrottleNext == Allow \/ cleanup \/ Tick \/ Restart

ThrottleSpec == ThrottleInit /\ [][ThrottleNext]_throttleVars

-----------------------------------------------------------------------------
(* Properties *)

Between(first, last) == {a \in admitted : a.at \in first..last}

(* Any stretch of time as long as a window sees at most two windows'       *)
(* requests, and one more window's for every restart: the sweeper never    *)
(* hands out a fresh allowance (middleware/ratelimit.go:72-88).            *)
RateKept ==
  \A t \in Ticks : Cardinality(Between(t, t + Window - 1)) <= (2 + restarts) * Rate
=============================================================================
