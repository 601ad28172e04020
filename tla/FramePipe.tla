------------------------------ MODULE FramePipe ------------------------------
(***************************************************************************)
(* What a decoder promises the pipeline that drives it: a first-in         *)
(* first-out pipe of pictures. A picture enters at most once, leaves in    *)
(* the order it entered, and end-of-stream is answered only after the      *)
(* stream was closed and nothing is left in the pipe.                      *)
(***************************************************************************)
EXTENDS Naturals, Sequences

CONSTANT Pictures

VARIABLES queue,       \* pictures displayed and not yet handed to the client
          delivered,   \* pictures handed to the client, in order
          closed,      \* the client has ended the stream
          eof          \* the last answer of receive_frame was end-of-stream

pipeVars == <<queue, delivered, closed, eof>>

InPipe == {queue[i] : i \in DOMAIN queue} \cup
          {delivered[i] : i \in DOMAIN delivered}

Init == /\ queue = <<>>
        /\ delivered = <<>>
        /\ closed = FALSE
        /\ eof = FALSE

Produce(p) == /\ p \notin InPipe
              /\ queue' = Append(queue, p)
              /\ UNCHANGED <<delivered, closed, eof>>

Deliver == /\ queue # <<>>
           /\ delivered' = Append(delivered, Head(queue))
           /\ queue' = Tail(queue)
           /\ eof' = FALSE
           /\ UNCHANGED closed

\* An answer "no frame": end-of-stream when the stream is closed.
Empty == /\ queue = <<>>
         /\ eof' = closed
         /\ UNCHANGED <<queue, delivered, closed>>

\* The client calls another method; feeding a closed stream reopens it.
Begin == /\ eof' = FALSE
         /\ closed' \in {closed, FALSE}
         /\ UNCHANGED <<queue, delivered>>

Close == /\ closed' = TRUE
         /\ UNCHANGED <<queue, delivered, eof>>

Next == \/ \E p \in Pictures : Produce(p)
        \/ Deliver
        \/ Empty
        \/ Begin
        \/ Close

Spec == Init /\ [][Next]_pipeVars
=============================================================================
