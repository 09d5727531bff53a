-------------------------- MODULE AssistantClient --------------------------
(***************************************************************************)
(* How the chat reads the assistant's stream: ApiAssistantClient of the    *)
(* OpenWebUI pipeline (pipeline.py).  A frame has a number, a type and,    *)
(* for the progress of a tool, its label.  Bytes of a line and of an       *)
(* answer are not counted.                                                 *)
(***************************************************************************)
EXTENDS Naturals, Sequences, FiniteSets

CONSTANTS PublicTools,     \* tool labels the chat accepts
          MaxEvents        \* _TEXT_ASSISTANT_MAX_STREAM_EVENTS

ASSUME ClientAssumption == MaxEvents \in Nat

Seen(frames, i, type) == \E j \in 1 .. i - 1 : frames[j].type = type

\* _validate_assistant_progress: between start and done, with a known label.
ProgressReadable(frames, i) ==
    /\ Seen(frames, i, "start") /\ ~Seen(frames, i, "done")
    /\ frames[i].type = "tool" => frames[i].label \in PublicTools

\* Frame i is taken by _parse_stream once the ones before it were.
Readable(frames, i) ==
    /\ i <= MaxEvents
    /\ frames[i].seq = i
    /\ \/ frames[i].type = "start" /\ i = 1
       \/ frames[i].type \in {"model", "tool"} /\ ProgressReadable(frames, i)
       \/ /\ frames[i].type \in {"delta", "done"}
          /\ Seen(frames, i, "start") /\ ~Seen(frames, i, "done")

\* The frames before the first one that is refused.
Taken(frames) == {i \in DOMAIN frames : \A j \in 1 .. i : Readable(frames, j)}
TextsOf(frames) == {i \in Taken(frames) : frames[i].type = "delta"}

\* What the chat is left with: the "answer"; the message that the assistant is
\* "unavailable", or an answer that "broke" off with an exception.
Shown(frames) ==
    IF /\ Taken(frames) = DOMAIN frames
       /\ Seen(frames, Len(frames) + 1, "done")
       /\ TextsOf(frames) # {}
    THEN "answer"
    ELSE IF TextsOf(frames) = {} THEN "unavailable" ELSE "broken"
=============================================================================
