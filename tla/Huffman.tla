------------------------------ MODULE Huffman ------------------------------
(***************************************************************************)
(* The Huffman code of header values (src/h3zero.c): the decoding tree,    *)
(* with its two tables as they are in the source, and                      *)
(* hzero_qpack_huffman_decode.                                             *)
(***************************************************************************)
EXTENDS Integers, Sequences, FiniteSets, SequencesExt

h3zero_qpack_huffman_bit == <<
  249, 50, 115, 39, 38, 79, 147, 39, 38, 100, 249, 50, 114, 100, 242, 100,
  228, 228, 206, 77, 52, 228, 204, 203, 202, 114, 102, 79, 147, 39, 76, 156,
  153, 62, 76, 156, 156, 153, 62, 76, 156, 153, 60, 154, 100, 242, 102, 79,
  147, 39, 38, 83, 228, 201, 201, 147, 211, 39, 38, 79, 38, 78, 76, 178>>

h3zero_qpack_huffman_val == <<
  44, 16, 8, 4, 2, 48, 49, 2, 50, 97, 4, 2, 99, 101, 2, 105, 111, 12, 4, 2,
  115, 116, 4, 2, 32, 37, 2, 45, 46, 8, 4, 2, 47, 51, 2, 52, 53, 4, 2, 54, 55,
  2, 56, 57, 36, 16, 8, 4, 2, 61, 65, 2, 95, 98, 4, 2, 100, 102, 2, 103, 104,
  8, 4, 2, 108, 109, 2, 110, 112, 4, 2, 114, 117, 4, 2, 58, 66, 2, 67, 68, 32,
  16, 8, 4, 2, 69, 70, 2, 71, 72, 4, 2, 73, 74, 2, 75, 76, 8, 4, 2, 77, 78, 2,
  79, 80, 4, 2, 81, 82, 2, 83, 84, 16, 8, 4, 2, 85, 86, 2, 87, 89, 4, 2, 106,
  107, 2, 113, 118, 8, 4, 2, 119, 120, 2, 121, 122, 8, 4, 2, 38, 42, 2, 44,
  59, 4, 2, 88, 90, 8, 4, 2, 33, 34, 2, 40, 41, 6, 2, 63, 2, 39, 43, 6, 2,
  124, 2, 35, 62, 8, 4, 2, 0, 36, 2, 64, 91, 4, 2, 93, 126, 4, 2, 94, 125, 4,
  2, 60, 96, 2, 123, 30, 10, 4, 2, 92, 195, 2, 208, 2, 128, 130, 8, 4, 2, 131,
  162, 2, 184, 194, 4, 2, 224, 226, 4, 2, 153, 161, 2, 167, 172, 46, 16, 8, 4,
  2, 176, 177, 2, 179, 209, 4, 2, 216, 217, 2, 227, 229, 14, 6, 2, 230, 2,
  129, 132, 4, 2, 133, 134, 2, 136, 146, 8, 4, 2, 154, 156, 2, 160, 163, 4, 2,
  164, 169, 2, 170, 173, 40, 16, 8, 4, 2, 178, 181, 2, 185, 186, 4, 2, 187,
  189, 2, 190, 196, 8, 4, 2, 198, 228, 2, 232, 233, 8, 4, 2, 1, 135, 2, 137,
  138, 4, 2, 139, 140, 2, 141, 143, 32, 16, 8, 4, 2, 147, 149, 2, 150, 151, 4,
  2, 152, 155, 2, 157, 158, 8, 4, 2, 165, 166, 2, 168, 174, 4, 2, 175, 180, 2,
  182, 183, 22, 8, 4, 2, 188, 191, 2, 197, 231, 6, 2, 239, 2, 9, 142, 4, 2,
  144, 145, 2, 148, 159, 20, 8, 4, 2, 171, 206, 2, 215, 225, 4, 2, 236, 237,
  4, 2, 199, 207, 2, 234, 235, 34, 16, 8, 4, 2, 192, 193, 2, 200, 201, 4, 2,
  202, 205, 2, 210, 213, 8, 4, 2, 218, 219, 2, 238, 240, 4, 2, 242, 243, 2,
  255, 2, 203, 204, 32, 16, 8, 4, 2, 211, 212, 2, 214, 221, 4, 2, 222, 223, 2,
  241, 244, 8, 4, 2, 245, 246, 2, 247, 248, 4, 2, 250, 251, 2, 252, 253, 30,
  14, 6, 2, 254, 2, 2, 3, 4, 2, 4, 5, 2, 6, 7, 8, 4, 2, 8, 11, 2, 12, 14, 4,
  2, 15, 16, 2, 17, 18, 16, 8, 4, 2, 19, 20, 2, 21, 23, 4, 2, 24, 25, 2, 26,
  27, 8, 4, 2, 28, 29, 2, 30, 31, 4, 2, 127, 220, 2, 249, 4, 2, 10, 13, 2, 22>>

Nodes == 0..511
Bit(byte, i) == (byte \div 2^(7 - i)) % 2

\* Mutated form: the bits of a byte are taken from the low end.
Inner_LowFirst ==
  {n \in Nodes : Bit(h3zero_qpack_huffman_bit[n \div 8 + 1], 7 - (n % 8)) = 1}

\* The nodes with two children; the others stand for an octet.
Inner == {n \in Nodes : Bit(h3zero_qpack_huffman_bit[n \div 8 + 1], n % 8) = 1}

\* The children of an inner node: the next one, and the one a jump away; a jump
\* to 512 is the end of the string.
Child(n, bit) == IF bit = 1 THEN n + h3zero_qpack_huffman_val[n + 1] ELSE n + 1

\* Mutated form: an octet does not start a new run of ones.
DecodeBit_NoReset(s, bit, max) ==
  LET n == Child(s.node, bit)
      ones == s.ones /\ bit = 1
  IN CASE s.over -> s
       [] ~s.over /\ n \notin Nodes -> [s EXCEPT !.over = TRUE, !.ones = ones]
       [] ~s.over /\ n \in Inner -> [s EXCEPT !.node = n, !.ones = ones]
       [] OTHER ->
            [s EXCEPT !.out = Append(@, h3zero_qpack_huffman_val[n + 1]),
                      !.node = 0, !.ones = ones]

\* One bit of the input: down the tree, and back to the root behind an octet.  The
\* loop ends at the end of string, and when the output is full.
DecodeBit(s, bit, max) ==
  LET n == Child(s.node, bit)
      ones == s.ones /\ bit = 1
  IN CASE s.over -> s
       [] ~s.over /\ n \notin Nodes -> [s EXCEPT !.over = TRUE, !.ones = ones]
       [] ~s.over /\ n \in Inner -> [s EXCEPT !.node = n, !.ones = ones]
       [] ~s.over /\ n \in Nodes \ Inner /\ Len(s.out) < max ->
            [s EXCEPT !.out = Append(@, h3zero_qpack_huffman_val[n + 1]),
                      !.node = 0, !.ones = TRUE]
       [] OTHER -> [s EXCEPT !.over = TRUE, !.ones = TRUE]

\* hzero_qpack_huffman_decode: at most max octets, and an error if the input ends
\* inside an octet that is not all ones so far.
HuffmanDecode(bytes, max) ==
  LET start == [node |-> 0, out |-> <<>>, ones |-> TRUE, over |-> FALSE]
      after[k \in 0..Len(bytes)] ==
        IF k = 0 THEN start
        ELSE FoldLeft(LAMBDA s, i : DecodeBit(s, Bit(bytes[k], i), max), after[k - 1],
                      <<0, 1, 2, 3, 4, 5, 6, 7>>)
      end == after[Len(bytes)]
  IN [ok |-> end.ones, out |-> end.out]
-----------------------------------------------------------------------------
(* The sender's side, which is not in the code: RFC 7541, section 5.2 and  *)
(* appendix B.  It does not look at the tree.                              *)

\* The octets with a code of a given length.
OctetsOf(length) ==
  CASE length = 5 -> {97, 99, 101, 105, 111, 115, 116} \cup 48..50
    [] length = 6 -> {32, 37, 61, 65, 95, 98, 100, 112, 114, 117} \cup 45..47
         \cup 51..57 \cup 102..104 \cup 108..110
    [] length = 7 -> {58, 89, 106, 107, 113} \cup 66..87 \cup 118..122
    [] length = 8 -> {38, 42, 44, 59, 88, 90}
    [] length = 10 -> {33, 34, 40, 41, 63}
    [] length = 11 -> {39, 43, 124}
    [] length = 12 -> {35, 62}
    [] length = 13 -> {0, 36, 64, 91, 93, 126}
    [] length = 14 -> {94, 125}
    [] length = 15 -> {60, 96, 123}
    [] length = 19 -> {92, 195, 208}
    [] length = 20 -> {128, 130, 131, 162, 184, 194, 224, 226}
    [] length = 21 -> {153, 161, 167, 172, 176, 177, 179, 209, 216, 217, 227,
         229, 230}
    [] length = 22 -> {129, 136, 146, 154, 156, 160, 163, 164, 169, 170, 173,
         178, 181, 189, 190, 196, 198, 228, 232, 233} \cup 132..134 \cup
         185..187
    [] length = 23 -> {1, 135, 143, 147, 155, 157, 158, 165, 166, 168, 174, 175,
         180, 182, 183, 188, 191, 197, 231, 239} \cup 137..141 \cup 149..152
    [] length = 24 -> {9, 142, 144, 145, 148, 159, 171, 206, 215, 225, 236, 237}
    [] length = 25 -> {199, 207, 234, 235}
    [] length = 26 -> {192, 193, 205, 210, 213, 218, 219, 238, 240, 242, 243,
         255} \cup 200..202
    [] length = 27 -> {203, 204, 211, 212, 214, 241} \cup 221..223 \cup 244..248
         \cup 250..254
    [] length = 28 -> {11, 12, 127, 220, 249} \cup 2..8 \cup 14..21 \cup 23..31
    [] length = 30 -> {10, 13, 22}
    [] OTHER -> {}

\* Codes are numbered by length, then by octet, as RFC 7541 lists them: a length
\* begins behind the last code of the lengths before it.
Codes ==
  LET counts == [l \in 1..30 |-> Cardinality(OctetsOf(l))]
      length(octet) == CHOOSE l \in 1..30 : octet \in OctetsOf(l)
      before(l) == FoldLeft(LAMBDA sum, m : 2 * sum + counts[m], 0, [m \in 1..(l - 1) |-> m])
      number(octet, l) == 2 * before(l) + Cardinality({o \in OctetsOf(l) : o < octet})
  IN [octet \in 0..255 |->
        [i \in 1..length(octet) |->
           (number(octet, length(octet)) \div 2^(length(octet) - i)) % 2]]

\* The code of a string, filled up with ones to whole bytes.
HuffmanEncode(octets) ==
  LET bits == FlattenSeq([i \in DOMAIN octets |-> Codes[octets[i]]])
      bit(i) == IF i <= Len(bits) THEN bits[i] ELSE 1
      power == <<128, 64, 32, 16, 8, 4, 2, 1>>
  IN [b \in 1..((Len(bits) + 7) \div 8) |->
        FoldLeft(LAMBDA v, i : v + power[i] * bit(8 * (b - 1) + i), 0,
                 <<1, 2, 3, 4, 5, 6, 7, 8>>)]
=============================================================================
