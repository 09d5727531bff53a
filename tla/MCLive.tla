------------------------------- MODULE MCLive -------------------------------
(* Two connections, one slot in the API and one in the speech service.      *)
EXTENDS LiveTranscription

CONSTANTS c1, c2

Page(n, eos) ==
    [bos |-> n = 0, eos |-> eos, continued |-> FALSE, serial |-> 1, number |-> n,
     opus |-> n = 0, sound |-> TRUE]
Payload(pages, cut) == [pages |-> pages, cut |-> cut]

OnePcm == {Payload(<<>>, "none")}
\* A first page, one torn in its body, a last page, and a page out of place.
SomeOgg == {Payload(<<Page(0, FALSE)>>, "none"),
            Payload(<<Page(0, FALSE), Page(1, TRUE)>>, "body"),
            Payload(<<Page(1, TRUE)>>, "none")}
SomeTexts == {<<"a">>, <<"a", "b">>, <<"b">>}

Load(codecs, count) == [codecs |-> codecs, frames |-> count]
\* One connection alone with a long session; or two for the one slot.
SomeLoads ==
    {(c1 :> Load({"ogg_opus"}, 2)) @@ (c2 :> Load({}, 0)),
     (c1 :> Load({"pcm_s16le"}, 3)) @@ (c2 :> Load({}, 0)),
     (c1 :> Load({"pcm_s16le"}, 1)) @@ (c2 :> Load({"pcm_s16le"}, 0))}
=============================================================================
