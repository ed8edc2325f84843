----------------------------- MODULE MCFraming -----------------------------
(***************************************************************************)
(* Framing on files that are put together here: units are protected        *)
(* against emulated start codes and laid out behind start codes or sizes,  *)
(* so what the reader should find is known by construction.                *)
(***************************************************************************)
EXTENDS Framing

Width30   == 2 ^ 30
MCFields  == {1, 5, 8, 12}

(* Emulation prevention, as the encoder does it, and where each byte goes  *)
Protect(rbsp) ==
  LET out[i \in 0 .. Len(rbsp)] ==
        LET q == out[i - 1].bytes
            n == Len(q)
            p == IF n >= 2 /\ q[n] = 0 /\ q[n - 1] = 0 /\ rbsp[i] <= 3
                 THEN Append(q, 3) ELSE q
        IN  IF i = 0 THEN [bytes |-> <<>>, place |-> <<>>]
            ELSE [bytes |-> Append(p, rbsp[i]),
                  place |-> Append(out[i - 1].place, Len(p))]
  IN  out[Len(rbsp)]

U32(n) == [i \in 1 .. 4 |-> (n \div 256 ^ (4 - i)) % 256]

(* A file grows at its end: raw bytes, or a unit behind its start code or  *)
(* its size.                                                               *)
Empty == [bytes |-> <<>>, units |-> <<>>, atoms |-> <<>>, sound |-> TRUE]

Raw(f, bytes) == [f EXCEPT !.bytes = @ \o bytes]

AtomEnd(f) ==
  [f EXCEPT !.atoms = Append(@, [at |-> Len(f.bytes), past |-> Len(f.units)])]

Put(f, rbsp, before) ==
  LET at  == Len(f.bytes) + Len(before)
      out == Protect(rbsp)
  IN  [f EXCEPT !.bytes = @ \o before \o out.bytes,
                !.units = Append(@, [at |-> at, rbsp |-> rbsp, len |-> Len(out.bytes),
                                     place |-> [k \in DOMAIN rbsp |-> at + out.place[k]]])]

Separate(f, rbsp, zeros) == Put(f, rbsp, Zeros(zeros) \o <<1>>)
Sized(f, rbsp)           == Put(f, rbsp, U32(Len(Protect(rbsp).bytes)))

SeparateAll(f, rbsps, zeros) ==
  LET g[i \in 0 .. Len(rbsps)] ==
        IF i = 0 THEN f ELSE Separate(g[i - 1], rbsps[i], zeros)
  IN  g[Len(rbsps)]

SizedAll(f, rbsps) ==
  LET g[i \in 0 .. Len(rbsps)] ==
        IF i = 0 THEN f ELSE Sized(g[i - 1], rbsps[i])
  IN  g[Len(rbsps)]

Mdat(f, rbsps) ==
  LET total == Len(SizedAll(Empty, rbsps).bytes)
  IN  AtomEnd(SizedAll(Raw(f, U32(total + 8) \o <<109, 100, 97, 116>>), rbsps))

Atom4(f, kind, payload) ==
  AtomEnd(Raw(f, U32(Len(payload) + 8) \o kind \o payload))
Free  == <<102, 114, 101, 101>>
Ftyp(n) ==
  AtomEnd(Raw(Empty, U32(n) \o <<102, 116, 121, 112>> \o Zeros(n - 8)))

Unsound(f)  == [f EXCEPT !.sound = FALSE]
Cut(f, n)   == Unsound([f EXCEPT !.bytes = SubSeq(@, 1, n)])
Patch(f, o, b) == Unsound([f EXCEPT !.bytes[o + 1] = b])

-----------------------------------------------------------------------------
(* Every unit of four bytes that matter to start codes, as a parameter set *)
(* and as a slice, between another slice and the end.                      *)
Letters == <<0, 1, 3, 128>>

Body(k) == <<Letters[1 + (k % 4)], Letters[1 + ((k \div 4) % 4)],
             Letters[1 + ((k \div 16) % 4)], Letters[2 + ((k \div 64) % 3)]>>

UnitFiles ==
  [k \in 1 .. 384 |->
     Separate(Separate(Empty, <<IF k % 2 = 0 THEN 104 ELSE 101>> \o Body(k \div 2), 2),
               <<65, 128>>, IF k % 3 = 0 THEN 3 ELSE 2)]

Sequence == <<103, 66, 128>>
Picture  == <<104, 0, 0, 192>>
Intra    == <<101, 0, 0, 3, 129>>
Inter    == <<65, 7, 0, 0, 1>>
Marker   == <<9, 240>>

Streamed(lead, zeros, trail) ==
  Raw(SeparateAll(Raw(Empty, Zeros(lead)),
                   <<Marker, Sequence, Picture, Intra, Inter>>, zeros),
      Zeros(trail))

Boxed == Mdat(Atom4(Ftyp(20), Free, <<>>), <<Sequence, Picture, Intra, Inter>>)

SoundFiles ==
  << Streamed(0, 2, 0), Streamed(1, 2, 1), Streamed(0, 3, 2), Streamed(2, 3, 3),
     Streamed(0, 4, 4),
     Boxed,
     Atom4(Mdat(Ftyp(16), <<Intra>>), Free, <<0, 0, 1, 101>>),
     Mdat(Mdat(Ftyp(16), <<Marker, Picture>>), <<Inter, Inter>>),
     Empty, Ftyp(16), Ftyp(24) >>

Small == Separate(Separate(Raw(Empty, Zeros(4)), Picture, 2), Intra, 2)

(* Boxed begins its mdat atom at 28 and the size of its first unit at 36.  *)
UnsoundFiles ==
  << Patch(Boxed, 39, 0), Patch(Boxed, 39, 2), Patch(Boxed, 39, 5),
     Patch(Boxed, 39, 200), Patch(Boxed, 40, 231),
     Raw(Cut(Boxed, 36), <<255, 255, 255, 252>> \o Sequence),
     Patch(Boxed, 31, 8), Patch(Boxed, 31, 0), Patch(Boxed, 31, 12),
     Patch(Boxed, 31, 255), Patch(Boxed, 23, 4), Patch(Boxed, 23, 16),
     Patch(Boxed, 3, 8), Patch(Boxed, 3, 12), Patch(Boxed, 3, 18),
     Patch(Boxed, 3, 60),
     Unsound(Separate(Separate(Empty, <<104, 0, 0, 0, 0, 0, 1>>, 2), Intra, 2)),
     Unsound(Separate(Raw(Empty, Zeros(5)), <<232, 1>>, 2)),
     Cut(Small, 5) >>

Cuts == [n \in 1 .. Len(Small.bytes) - 1 |-> Cut(Small, n)]
          \o [n \in 1 .. Len(Boxed.bytes) - 1 |-> Cut(Boxed, n)]

MCFiles == UnitFiles \o SoundFiles \o UnsoundFiles \o Cuts

-----------------------------------------------------------------------------
(* The code of n as H.264 9.1 defines it                                   *)
Encode(n) ==
  LET zeros == CHOOSE z \in 0 .. 30 : 2 ^ z <= n + 1 /\ n + 1 < 2 ^ (z + 1)
  IN  Zeros(zeros) \o [i \in 1 .. zeros + 1 |->
                         ((n + 1) \div 2 ^ (zeros + 1 - i)) % 2]

Bytes(bits) ==
  [i \in 1 .. Len(bits) \div 8 |-> Number(SubSeq(bits, 8 * i - 7, 8 * i))]

(* The code of n from bit `shift' of a buffer on, and the bit it ends at   *)
Test(n, shift) ==
  [bytes  |-> Bytes([i \in 1 .. shift |-> 1] \o Encode(n) \o Zeros(80)),
   from   |-> shift,
   past   |-> shift + Len(Encode(n)),
   code   |-> Encode(n)]

(* What bitstream_reader_selftest asserts of five codes: the number, and   *)
(* the bits of its six bytes the code lies between (bitstream.c:60-95).    *)
SelfTests ==
  {[bytes |-> <<15, 255, 3, 16, 144, 127>>, from |-> t[2], past |-> t[3],
    code  |-> Encode(t[1])] :
     t \in {<<30, 0, 9>>, <<0, 9, 10>>, <<97, 16, 29>>, <<17, 28, 37>>, <<30, 37, 46>>}}

Numbers == 0 .. 17 \union {30, 31, 62, 63, 97, 254, 255, 65534, 65535}

At(bit, n) == [bitstream_init(n) EXCEPT !.off = bit \div 8, !.shift = bit % 8]

(* A code is read back whatever bit it starts at, and the reader stands    *)
(* right behind it; signed ones alternate as 9.1.1 has it                  *)
(* (bitstream.c:332-422).                                                  *)
GolombReads ==
  pc = "probe" /\ file = Empty =>
    /\ \A n \in Numbers :
         /\ CodeNum(Encode(n)) = n
         /\ Signed(n) = IF n % 2 = 1 THEN (n + 1) \div 2 ELSE -(n \div 2)
    /\ \A t \in SelfTests \union {Test(n, shift) : n \in Numbers, shift \in 0 .. 7} :
         ReadUe(t.bytes, At(t.from, Len(t.bytes)))
           = [r    |-> At(t.past, Len(t.bytes)),
              bits |-> t.code, bad |-> FALSE, out |-> FALSE]
=============================================================================
