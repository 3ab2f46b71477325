----------------------------- MODULE AckBarrier -----------------------------
(***************************************************************************)
(* What a consensus module that keeps its promises and a service that      *)
(* acknowledges make together: a barrier.  One question is open at a time; *)
(* from the question to the end of its answer nothing is committed; the    *)
(* answer comes once, from a service that has consumed all that was        *)
(* committed; and a snapshot is of exactly that position.                  *)
(***************************************************************************)
EXTENDS Integers

CONSTANT MayBeLost    \* the answer to a join may be lost

VARIABLES question,   \* what the consensus module waits for, if anything
          committed,  \* its commit position
          consumed,   \* the position of the service
          durable,    \* the position of the latest snapshot
          answer      \* "none" yet, "sent", or "lost"

barrierVars == <<question, committed, consumed, durable, answer>>

BarrierInit == /\ question = "starting"
               /\ committed = 0 /\ consumed = 0 /\ durable = 0
               /\ answer = "none"

\* An entry is committed; if it asks for a snapshot, that is the next question.
CommitNext == /\ question = "nothing"
              /\ committed' = committed + 1
              /\ question' \in {"nothing", "snapshot"}
              /\ UNCHANGED <<consumed, durable, answer>>

\* The service is to catch up, or to join a log: the one it has consumed goes on there.
Ask == /\ question = "nothing"
       /\ \/ question' = "draining"
          \/ question' = "joining" /\ consumed = committed
       /\ UNCHANGED <<committed, consumed, durable, answer>>

Consume == /\ consumed < committed
           /\ answer = "none"
           /\ consumed' = consumed + 1
           /\ UNCHANGED <<question, committed, durable, answer>>

Acknowledge == /\ question # "nothing"
               /\ answer = "none"
               /\ consumed = committed
               /\ \/ answer' = "sent"
                  \/ answer' = "lost" /\ question = "joining" /\ MayBeLost
               /\ UNCHANGED <<question, committed, consumed, durable>>

TakeAnswer == /\ answer = "sent"
              /\ question' = "nothing"
              /\ durable' = IF question = "snapshot" THEN committed ELSE durable
              /\ answer' = "none"
              /\ UNCHANGED <<committed, consumed>>

\* Both start again from the snapshot: the only way out if the answer was lost.
StartAgain == /\ question' = "starting"
              /\ committed' = durable /\ consumed' = durable
              /\ answer' = "none"
              /\ UNCHANGED durable

BarrierNext == CommitNext \/ Ask \/ Consume \/ Acknowledge \/ TakeAnswer \/ StartAgain

BarrierSpec == BarrierInit /\ [][BarrierNext]_barrierVars
=============================================================================
