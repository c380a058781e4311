---------------------------- MODULE Steganography ----------------------------
(***************************************************************************)
(* The steganography server: a text goes into a video twice, as coloured   *)
(* pixels in the top left corner of every frame and, encrypted, in the     *)
(* lowest bits of the first frames; the video is then compressed.  A video *)
(* is a sequence of frames; of a frame the corner's bits are kept, whether *)
(* the decorations that mark it can be made out, and what its lowest bits  *)
(* hold.                                                                   *)
(***************************************************************************)
EXTENDS Integers, Sequences, FiniteSets

CONSTANTS
    CharBits,      \* bits of a character: 8
    CornerBits,    \* pixels of the corner: 40 x 40
    BorderBits,    \* bits a frame is given at most: half its perimeter
    Marker,        \* "STEGO:", a sequence of characters
    Chunk,         \* how much is returned from the marker on: 200 characters
    Parts,         \* into how many parts the encrypted text is split: 10
    Samples,       \* how many frames are looked at: 10
    Scene          \* the bits the pixels of the recorded scene read as

ASSUME StegoAssumption ==
    /\ CharBits \in Nat \ {0} /\ Parts \in Nat \ {0} /\ Samples \in Nat \ {0}
    /\ DOMAIN Scene = 1..CornerBits

NoText == <<>>
Text(t) == [found |-> TRUE, text |-> t]
Nothing == [found |-> FALSE, text |-> NoText]

\* A character is a number below 2^CharBits; 0 is not printable.
Bit(c, k) == (c \div 2^(CharBits - k)) % 2
text_to_binary(text) ==
    [i \in 1..(CharBits * Len(text)) |->
        Bit(text[((i - 1) \div CharBits) + 1], ((i - 1) % CharBits) + 1)]

Code(bits, k) ==
    LET c[j \in 0..CharBits] ==
            IF j = 0 THEN 0
            ELSE 2 * c[j - 1] + (IF CharBits * (k - 1) + j \in DOMAIN bits
                                 THEN bits[CharBits * (k - 1) + j] ELSE 0)
    IN  c[CharBits]

\* The bits are padded to whole characters, with one more even when they are; only
\* printable characters are kept.
binary_to_text(bits) ==
    IF Len(bits) < CharBits THEN NoText
    ELSE SelectSeq([k \in 1..((Len(bits) \div CharBits) + 1) |-> Code(bits, k)], LAMBDA c : c # 0)

\* create_data_border: frame i holds the data from another third on, around the end.
Smaller(a, b) == IF a < b THEN a ELSE b
FrameData(data, i) ==
    LET bits == text_to_binary(data)
        n == Smaller(Len(bits), BorderBits)
        start == ((i * n) \div 3) % Len(bits)
    IN  [k \in 1..n |-> bits[((start + k - 1) % Len(bits)) + 1]]
create_data_border(data, i) ==
    LET written == FrameData(data, i) IN
    [corner |-> [k \in 1..CornerBits |-> IF k \in DOMAIN written THEN written[k] ELSE Scene[k]],
     marked |-> TRUE, lsb |-> NoText]

add_data_border_to_frames(n, text) ==
    [i \in 1..n |-> create_data_border(Marker \o text, i - 1)]

\* split_string, encode_frames: a part of the encrypted text per frame, and a copy of
\* the first frame at the end that tells which.
split_string(s) ==
    LET per == (Len(s) + Parts - 1) \div Parts
    IN  [p \in 1..((Len(s) + per - 1) \div per) |->
            SubSeq(s, per * (p - 1) + 1, Smaller(per * p, Len(s)))]
encode_frames(frames, encrypted) ==
    LET parts == split_string(encrypted)
        used == Smaller(Len(parts), Len(frames))
    IN  Append([i \in DOMAIN frames |->
                   IF i <= used THEN [frames[i] EXCEPT !.lsb = parts[i]] ELSE frames[i]],
               [frames[1] EXCEPT !.lsb = [p \in 1..used |-> p]])

\* convert_to_mp4: H.264 is lossy.  No lowest bit survives, and of some frames the
\* coloured pixels do not either.
convert_to_mp4(frames, damaged) ==
    [i \in DOMAIN frames |->
        [frames[i] EXCEPT !.lsb = NoText,
                          !.corner = IF i \in damaged THEN Scene ELSE @,
                          !.marked = i \notin damaged]]

\* encrypt_endpoint, for n frames; an exception or a failed conversion is an error.
encrypt_endpoint(n, text, damaged, fails) ==
    IF n = 0 \/ fails THEN [ok |-> FALSE, mp4 |-> <<>>]
    ELSE [ok  |-> TRUE,
          mp4 |-> convert_to_mp4(encode_frames(add_data_border_to_frames(n, text), text), damaged)]

----------------------------------------------------------------------------
(* Reading.                                                                 *)

decode_border_data(frame) == binary_to_text(frame.corner)

\* Where the marker is in a text.
Found(text) ==
    {k \in 1..Len(text) : SubSeq(text, k, Smaller(k + Len(Marker) - 1, Len(text))) = Marker}
FromMarker(text) ==
    LET k == CHOOSE k \in Found(text) : \A l \in Found(text) : k <= l
    IN  SubSeq(text, k, Smaller(k + Chunk - 1, Len(text)))

Sampled(video) ==
    LET n == Smaller(Samples, Len(video))
    IN  [i \in 1..n |-> video[(((i - 1) * Len(video)) \div n) + 1]]

\* extract_border_data: the first sampled frame with the marker tells; else whatever
\* the frames hold is put together.
extract_border_data(video) ==
    LET texts == LET bordered == SelectSeq(Sampled(video), LAMBDA f : f.marked)
                 IN  [i \in DOMAIN bordered |-> decode_border_data(bordered[i])]
        telling == SelectSeq(texts, LAMBDA t : Found(t) # {})
        all[k \in 0..Len(texts)] == IF k = 0 THEN NoText ELSE all[k - 1] \o texts[k]
    IN  IF telling # <<>> THEN Text(FromMarker(telling[1]))
        ELSE IF all[Len(texts)] = NoText THEN Nothing
        ELSE Text(all[Len(texts)])

\* decode_video: what the lowest bits of the frames named by the last one hold, and if
\* they hold nothing what the borders gave, were it only that they hold nothing either.
decode_video(video) ==
    LET named == video[Len(video)].lsb
        res[k \in 0..Len(named)] ==
            IF k = 0 THEN NoText ELSE res[k - 1] \o video[named[k]].lsb
    IN  IF res[Len(named)] # NoText THEN Text(res[Len(named)]) ELSE extract_border_data(video)

decrypt_endpoint(video) ==
    IF extract_border_data(video).found
    THEN [kind |-> "border_data", text |-> extract_border_data(video).text]
    ELSE [kind |-> "stego_data", text |-> decode_video(video).text]

\* A reader finds the text after the marker; what follows it are pixels of the scene.
Tells(answer, text) ==
    /\ answer.kind = "border_data"
    /\ Len(answer.text) >= Len(Marker \o text)
    /\ SubSeq(answer.text, 1, Len(Marker \o text)) = Marker \o text
=============================================================================
