----------------------------- MODULE MCStorage -----------------------------
(* StorageClient for TLC, and the properties that need its instance. *)
EXTENDS StorageClient, Base64

(* The name "ab" as the web page sends it, encoded, and as the backup      *)
(* client sends it, as it is.                                              *)
ab == <<97, 98>>
const_Decoded == Decode(ab, FALSE)
const_WebName == {Decode(Encode(ab, FALSE), FALSE)}
const_Name == const_WebName \cup {const_Decoded}
const_Size == [d \in Data |-> IF d = "B" THEN 2 ELSE 1]
const_LocalData == <<"A", "B">>

(* RunModule ends up recording the last version of a local file, if the    *)
(* server keeps coming up.                                                 *)
EventuallyRecorded == []<>(proc = "up") => <>[](recorded = ver)

(* What a name of the table, or any short sequence of bytes, comes back as *)
(* from the codecs.                                                        *)
RoundTrip(s) ==
    /\ \A url \in BOOLEAN, distance \in 1 .. 5 :
          /\ Decode(Encode(s, url), FALSE) = s
          /\ Decode(InsertLinebreaks(Encode(s, url), distance), TRUE) = s
    /\ UrlDecode(UrlEncode(s)) = s
ShortRoundTrip ==
    \A s \in UNION {[1 .. n -> {0, 3, 97, 255}] : n \in 0 .. 4} : RoundTrip(s)

(* base64_decode undoes base64_encode for both alphabets, with line breaks *)
(* inserted anywhere or none, and UrlDecode undoes percent-encoding: for   *)
(* every name under which a file was uploaded, and all short sequences.    *)
CodecsInverse == ShortRoundTrip /\ \A n \in DOMAIN table_ : RoundTrip(n)
=============================================================================
