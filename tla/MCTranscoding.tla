--------------------------- MODULE MCTranscoding ---------------------------
(* Transcoding with the surroundings of its runs. *)
EXTENDS Transcoding

\* One video, of which everything may happen; or, when all is calm, a video and audio from an older
\* version with a new video, or with a newer image or newer audio, where the chain breaks.
CalmOrNot == {[media |-> {"v1"}, old |-> <<>>, calm |-> FALSE],
              [media |-> {"old", "audio", "new"}, old |-> <<"old", "audio">>, calm |-> TRUE],
              [media |-> {"old", "audio", "image"}, old |-> <<"image", "old", "audio">>, calm |-> TRUE],
              [media |-> {"old", "audio"}, old |-> <<"audio", "old">>, calm |-> TRUE]}
=============================================================================
