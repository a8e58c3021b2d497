----------------------------- MODULE LatestWrite -----------------------------
(* What the asynchronous writes of automation scripts promise: of the values *)
(* scripts ask for, the newest one of every tag is handed to the tag's       *)
(* driver, one write at a time.  Older values of the tag may be skipped; a    *)
(* value that changes while it is being written is written again.             *)
CONSTANTS Tags, Values, NoValue, NoTag

VARIABLES
    wanted,    \* tag -> the newest value not written yet, or NoValue
    writing    \* the write under way

Idle == [tag |-> NoTag, value |-> NoValue]

WriteInit == /\ wanted = [t \in Tags |-> NoValue]
             /\ writing = Idle

Request(t, v) == /\ wanted' = [wanted EXCEPT ![t] = v]
                 /\ UNCHANGED writing

Begin(t) == /\ writing = Idle
            /\ wanted[t] # NoValue
            /\ writing' = [tag |-> t, value |-> wanted[t]]
            /\ UNCHANGED wanted

(* The value is done with unless another one was asked for meanwhile.        *)
End == /\ writing # Idle
       /\ writing' = Idle
       /\ wanted' = [wanted EXCEPT ![writing.tag] =
                        IF @ = writing.value THEN NoValue ELSE @]

WriteNext == \/ \E t \in Tags, v \in Values : Request(t, v)
             \/ \E t \in Tags : Begin(t)
             \/ End

SafeWrites == WriteInit /\ [][WriteNext]_<<wanted, writing>>

(* No tag is passed over for ever in favour of the others.                   *)
FairWrites == /\ SafeWrites
              /\ WF_<<wanted, writing>>(End)
              /\ \A t \in Tags : SF_<<wanted, writing>>(Begin(t))
=============================================================================
