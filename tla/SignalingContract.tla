------------------------- MODULE SignalingContract -------------------------
(***************************************************************************)
(* What the agent promises one client and the media layer, whatever the     *)
(* transport: the connection flow of joy-media signaling/mod.rs. The client *)
(* sees a short conversation, and its media session is over soon after it   *)
(* is gone. SignalingSession implements it.                                 *)
(***************************************************************************)
EXTENDS Naturals, Sequences

CONSTANT ErrorCodes

VARIABLES
    client,     \* "up" | "gone"
    delivered,  \* the frames the client received
    media,      \* "none" | "open" | "over": the media session of this client
    held        \* the media layer cannot let go of its peer connection

vars == <<client, delivered, media, held>>

Heard(F) == \E i \in 1..Len(delivered) : delivered[i] \in F
Errors   == {i \in 1..Len(delivered) : delivered[i] \in ErrorCodes}

Init == client = "up" /\ delivered = <<>> /\ media = "none" /\ ~held

Leave == client = "up" /\ client' = "gone" /\ UNCHANGED <<delivered, media, held>>
Open  == media = "none" /\ media' = "open" /\ UNCHANGED <<client, delivered, held>>
End   == media # "over" /\ ~held /\ media' = "over" /\ UNCHANGED <<client, delivered, held>>

\* An open media session is held up for ever in its teardown.
Hold  == media = "open" /\ ~held /\ held' /\ UNCHANGED <<client, delivered, media>>

Tell(f) ==
    /\ client = "up" /\ ~Heard({"close"})
    /\ delivered' = Append(delivered, f)
    /\ UNCHANGED <<client, media, held>>

\* The agent answers once, before anything else, for a media session it opened.
TellAnswer == delivered = <<>> /\ media # "none" /\ Tell("answer")

\* An error is terminal: only the transport's own bad_message can come after one,
\* and only it can come without a media session.
TellError(e) ==
    /\ Errors = {} \/ (e = "bad_message" /\ \A i, j \in Errors : i = j)
    /\ media # "none" \/ e = "bad_message"
    /\ Tell(e)

\* The agent hangs up when the media session is over, or right after a bad_message.
TellClose ==
    /\ \/ media = "over"
       \/ delivered # <<>> /\ delivered[Len(delivered)] = "bad_message"
    /\ Tell("close")

Next ==
    \/ Leave \/ Open \/ End \/ Hold \/ TellAnswer \/ TellClose
    \/ \E e \in ErrorCodes : TellError(e)

\* A client that is gone is not streamed to for ever, unless the teardown is held up.
Spec == Init /\ [][Next]_vars /\ WF_vars(client = "gone" /\ End)
=============================================================================
