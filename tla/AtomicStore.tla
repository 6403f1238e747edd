---------------------------- MODULE AtomicStore -----------------------------
(***************************************************************************)
(* What the control-plane store promises its callers: an operation takes   *)
(* effect at one moment of the call, on what the operations before it      *)
(* left, or not at all.  The in-memory store is this, by its mutex.  What  *)
(* the operations do is for StoreOperations to say.                        *)
(***************************************************************************)
EXTENDS Integers

CONSTANTS Callers,        (* goroutines                                     *)
          OwnerOf,        (* the owner that a caller acts for               *)
          Empty, Nothing, None,
          Calls(_, _, _), (* what a caller may ask for                      *)
          Apply(_, _, _)  (* what an operation does, and tells              *)

VARIABLES clock, contents,
          stage,     (* where a call is                                     *)
          call,      (* what it asks for                                    *)
          answer     (* what the caller was told last                       *)

vars == <<clock, contents, stage, call, answer>>

Init == /\ clock = 0
        /\ contents = Empty
        /\ stage = [p \in Callers |-> "idle"]
        /\ call = [p \in Callers |-> None]
        /\ answer = [p \in Callers |-> Nothing]

\* An owner has the leases that any of its calls told it of.
Begin(p) == /\ stage[p] = "idle" /\ stage' = [stage EXCEPT ![p] = "called"]
            /\ \E q \in Callers :
                  /\ OwnerOf[q] = OwnerOf[p]
                  /\ \E c \in Calls(OwnerOf[p], answer[q].lease, clock) :
                        call' = [call EXCEPT ![p] = c]
            /\ UNCHANGED <<clock, contents, answer>>

\* The time of a call is read once, and the operation runs at that time or later.
\* What a reader finds expired need not be written.
Do(p) == /\ stage[p] = "called" /\ stage' = [stage EXCEPT ![p] = "done"]
         /\ \E read \in call[p].now .. clock : \E t \in read .. clock :
               LET result == Apply(contents, [call[p] EXCEPT !.now = read], t)
               IN  /\ \/ contents' = result.contents
                      \/ ~result.save /\ UNCHANGED contents
                   /\ answer' = [answer EXCEPT ![p] = result.answer]
         /\ UNCHANGED <<clock, call>>

Return(p) == /\ stage[p] = "done"
             /\ stage' = [stage EXCEPT ![p] = "idle"]
             /\ call' = [call EXCEPT ![p] = None]
             /\ UNCHANGED <<clock, contents, answer>>

\* Calls that fail, and callers that crash.
Lose(lost) == /\ stage' = [p \in Callers |-> IF p \in lost THEN "idle" ELSE stage[p]]
              /\ call' = [p \in Callers |-> IF p \in lost THEN None ELSE call[p]]
              /\ answer' = [p \in Callers |-> IF p \in lost THEN Nothing ELSE answer[p]]
              /\ UNCHANGED <<clock, contents>>

Tick == /\ clock' = clock + 1
        /\ UNCHANGED <<contents, stage, call, answer>>

Next == \/ \E p \in Callers : Begin(p) \/ Do(p) \/ Return(p)
        \/ \E lost \in SUBSET Callers : Lose(lost)
        \/ Tick

Spec == Init /\ [][Next]_vars
=============================================================================
