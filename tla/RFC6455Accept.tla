---------------------------- MODULE RFC6455Accept ----------------------------
(***************************************************************************)
(* What a client expects in Sec-WebSocket-Accept, written from the         *)
(* standards and not from this repository: RFC 6455 1.3 (the GUID behind   *)
(* the key), FIPS 180-3 (SHA-1) and RFC 4648 (Base64).                     *)
(***************************************************************************)
EXTENDS Word32, RFC4648

\* FIPS 180-3, 4.1.1 and 4.2.1
LOCAL Ch(x, y, z)     == BitXor(BitAnd(x, y), BitAnd(Complement(x), z))
LOCAL Parity(x, y, z) == BitXor(x, BitXor(y, z))
LOCAL Maj(x, y, z)    == BitXor(BitAnd(x, y), BitXor(BitAnd(x, z), BitAnd(y, z)))

LOCAL Function(t, x, y, z) ==
  IF t < 20 THEN Ch(x, y, z) ELSE IF t \in 40..59 THEN Maj(x, y, z) ELSE Parity(x, y, z)

LOCAL Constant(t) ==
  << <<90, 130, 121, 153>>, <<110, 217, 235, 161>>, <<143, 27, 188, 220>>,
     <<202, 98, 193, 214>> >>[t \div 20 + 1]

\* 6.1.2, step 1: element t + 1 is word t of the schedule
RECURSIVE Scheduled(_)
Scheduled(w) ==
  LET n == Len(w)
  IN  IF n = 80 THEN w
      ELSE Scheduled(Append(w, RotateLeft(1, BitXor(BitXor(w[n - 2], w[n - 7]),
                                                     BitXor(w[n - 13], w[n - 15])))))

\* Steps 2 and 3: each of a, b, c, d, e was an a before, so that the sequence of
\* the values of a is all there is; the first five of it stand for e to a.
RECURSIVE Computed(_, _)
Computed(w, as) ==
  LET n == Len(as)
      t == n - 5
  IN  IF t = 80 THEN as
      ELSE Computed(w, Append(as,
             Plus(Plus(RotateLeft(5, as[n]),
                       Function(t, as[n - 1], RotateLeft(30, as[n - 2]), RotateLeft(30, as[n - 3]))),
                  Plus(Plus(RotateLeft(30, as[n - 4]), Constant(t)), w[t + 1]))))

\* The hash h after the words w of a block
LOCAL Hashed(h, w) ==
  LET as == Computed(Scheduled(w), << RotateLeft(2, h[5]), RotateLeft(2, h[4]),
                                      RotateLeft(2, h[3]), h[2], h[1] >>)
  IN  << Plus(h[1], as[85]), Plus(h[2], as[84]), Plus(h[3], RotateLeft(30, as[83])),
         Plus(h[4], RotateLeft(30, as[82])), Plus(h[5], RotateLeft(30, as[81])) >>

\* The hash of the first n blocks of padded
RECURSIVE HashOf(_, _)
HashOf(padded, n) ==
  IF n = 0 THEN << <<103, 69, 35, 1>>, <<239, 205, 171, 137>>, <<152, 186, 220, 254>>,
                   <<16, 50, 84, 118>>, <<195, 210, 225, 240>> >>
  ELSE Hashed(HashOf(padded, n - 1),
              [t \in 1..16 |-> SubSeq(padded, 64 * n - 67 + 4 * t, 64 * n - 64 + 4 * t)])

\* 5.1.1: 1, k zero bits and the 64 bits of the length, for the least k that
\* fills a block; messages are short of 2^28 bytes.
PaddedBits(m) ==
  LET k    == CHOOSE n \in 0..511 : (8 * Len(m) + 1 + n) % 512 = 448
      bits == 8 * Len(m)
  IN  m \o <<128>> \o [i \in 1..((k - 7) \div 8) |-> 0]
        \o << 0, 0, 0, 0, bits \div 2^24, (bits \div 2^16) % 256, (bits \div 2^8) % 256, bits % 256 >>

Sha1(m) ==
  LET h == HashOf(PaddedBits(m), Len(PaddedBits(m)) \div 64)
  IN  h[1] \o h[2] \o h[3] \o h[4] \o h[5]

\* "258EAFA5-E914-47DA-95CA-C5AB0DC85B11"
GUID == << 50, 53, 56, 69, 65, 70, 65, 53, 45, 69, 57, 49, 52, 45, 52, 55, 68, 65,
           45, 57, 53, 67, 65, 45, 67, 53, 65, 66, 48, 68, 67, 56, 53, 66, 49, 49 >>

Accept(key) == StandardBase64(Sha1(key \o GUID))

\* "dGhlIHNhbXBsZSBub25jZQ==" and "s3pPLMBiTxaQ9kYGzzhZRbK+xOo=" of RFC 6455 1.3
ExampleKey == << 100, 71, 104, 108, 73, 72, 78, 104, 98, 88, 66, 115,
                 90, 83, 66, 117, 98, 50, 53, 106, 90, 81, 61, 61 >>

ASSUME RFCExample ==
  Accept(ExampleKey) = << 115, 51, 112, 80, 76, 77, 66, 105, 84, 120, 97, 81, 57, 107,
                          89, 71, 122, 122, 104, 90, 82, 98, 75, 43, 120, 79, 111, 61 >>
=============================================================================
