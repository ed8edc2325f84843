------------------------------ MODULE Framing ------------------------------
(***************************************************************************)
(* How the program finds the units of a file: parse_mp4, or parse_annex_b  *)
(* if the file does not start with an ftyp atom; parse_NAL for each unit;  *)
(* the bit reader under the parsers; and the data that is copied for the   *)
(* engine, which decides where the reader resumes.                         *)
(*                                                                         *)
(* The parsers themselves are abstract: they read fields of any width and  *)
(* codes in any order, for as long as they like, and may reject what they  *)
(* read.  A parser may stray: read more than the syntax of its unit, as    *)
(* parse_SPS does whose scaling lists never end (SPS.c:192), or parse_PPS  *)
(* whose slice_group_id are too wide (PPS.c:142).  What is said of sound   *)
(* files says when that matters.                                           *)
(***************************************************************************)
EXTENDS Bitstream, FiniteSetsExt, SequencesExt

CONSTANTS
  Files,        \* the input files, a sequence, see FileType
  Fields,       \* bound: the widths of the fields the parsers read
  DataBufSize   \* DATA_BUF_SIZE: 2^19

StartCodeSz == 3   \* NAL_START_CODE_SZ

(* A file, and what its author put there: where each unit begins, its      *)
(* bytes before emulation prevention, the place of each in the file, and   *)
(* its length there; and where the atoms begin, with the number of units   *)
(* before each.  A file that is not sound is cut off or lies about its     *)
(* sizes.  The whole of it is mapped, so offsets do not wrap inside it.    *)
UnitType == [at : Nat, len : Nat, rbsp : Seq(Byte), place : Seq(Nat)]

FileType(f) ==
  /\ f.bytes \in Seq(Byte) /\ Len(f.bytes) + StartCodeSz < Width
  /\ f.units \in Seq(UnitType)
  /\ f.atoms \in Seq([at : Nat, past : Nat])
  /\ f.sound \in BOOLEAN

Slice        == {1, 5}
ParameterSet == {7, 8}

FourCC(a, b, c, d) == Bits(a) \o Bits(b) \o Bits(c) \o Bits(d)
ftyp == FourCC(102, 116, 121, 112)
mdat == FourCC(109, 100, 97, 116)

(* is_NAL_start_code: the length of the start code at o, or 0              *)
StartCode(bytes, o) ==
  CASE /\ \A i \in 0 .. 2 : ByteAt(bytes, o + i) = 0
       /\ ByteAt(bytes, o + 3) = 1 -> 4
    [] /\ \A i \in 0 .. 1 : ByteAt(bytes, o + i) = 0
       /\ ByteAt(bytes, o + 2) = 1 -> 3
    [] OTHER -> 0

-----------------------------------------------------------------------------
(***************************************************************************)
(* Sound files, as ISO 14496-12 and H.264 7.3.1 and Annex B lay them out.  *)
(***************************************************************************)
WordAt(bytes, o) == BitString([k \in 0 .. 3 |-> ByteAt(bytes, o + k)], 0, 32)

RbspBits(u) ==
  BitString([k \in 0 .. Len(u.rbsp) - 1 |-> u.rbsp[k + 1]], 0, 8 * Len(u.rbsp))

Kind(u) == Number(SubSeq(RbspBits(u), 4, 8))

(* The byte at o keeps the zeros before it from looking like a start code. *)
Prevents(bytes, o) ==
  /\ o >= 2 /\ ByteAt(bytes, o) = 3
  /\ ByteAt(bytes, o - 2) = 0 /\ ByteAt(bytes, o - 1) = 0
  /\ ByteAt(bytes, o + 1) <= 3

SoundUnit(f, u) ==
  LET n == Len(u.rbsp)
  IN  /\ n > 0 /\ u.rbsp[n] # 0 /\ Len(u.place) = n
      /\ Kind(u) \in Slice \union ParameterSet => n > 1
      /\ u.place[1] = u.at /\ u.place[n] + 1 = u.at + u.len
      /\ u.at + u.len <= Len(f.bytes)
      /\ \A k \in 1 .. n :
           ByteAt(f.bytes, u.place[k]) = u.rbsp[k] /\ ~Prevents(f.bytes, u.place[k])
      /\ \A k \in 1 .. n - 1 :
           u.place[k + 1] = u.place[k]
                              + (IF Prevents(f.bytes, u.place[k] + 1) THEN 2 ELSE 1)

(* Start codes are before the units and nowhere else, zeros between them.  *)
(* A parameter set is followed by a unit.                                  *)
SoundDelimited(f) ==
  /\ f.atoms = <<>>
  /\ f.units # <<>> => Len(f.bytes) >= 8
  /\ WordAt(f.bytes, 4) # ftyp
  /\ \A i \in DOMAIN f.units :
       /\ f.units[i].at >= StartCodeSz
       /\ StartCode(f.bytes, f.units[i].at - StartCodeSz) = StartCodeSz
  /\ \A o \in 0 .. Len(f.bytes) :
       StartCode(f.bytes, o) > 0 =>
         \E i \in DOMAIN f.units : f.units[i].at = o + StartCode(f.bytes, o)
  /\ \A i \in DOMAIN f.units :
       Kind(f.units[i]) \in ParameterSet =>
         /\ i < Len(f.units)
         /\ \A o \in f.units[i].at + f.units[i].len .. f.units[i + 1].at - StartCodeSz - 1 :
              ByteAt(f.bytes, o) = 0

(* An ftyp atom, and atoms up to the end of the file; the mdat atoms are   *)
(* made of the units, each behind its size.                                *)
SoundAtom(f, k) ==
  LET this == f.atoms[k]
      next == f.atoms[k + 1]
      from(i) == IF i = this.past + 1 THEN this.at + 8
                 ELSE f.units[i - 1].at + f.units[i - 1].len
  IN  /\ this.at + 8 <= Len(f.bytes)
      /\ Number(WordAt(f.bytes, this.at)) >= 8
      /\ next.at = this.at + Number(WordAt(f.bytes, this.at))
      /\ IF WordAt(f.bytes, this.at + 4) = mdat
         THEN /\ this.past < next.past /\ next.past <= Len(f.units)
              /\ f.units[next.past].at + f.units[next.past].len = next.at
              /\ \A i \in this.past + 1 .. next.past :
                   /\ f.units[i].at = from(i) + 4
                   /\ f.units[i].len = Number(WordAt(f.bytes, from(i)))
         ELSE this.past = next.past

SoundBoxed(f) ==
  LET n == Len(f.atoms)
      size == Number(WordAt(f.bytes, 0))
  IN  /\ WordAt(f.bytes, 4) = ftyp /\ size >= 16 /\ size % 4 = 0
      /\ n > 0 /\ f.atoms[1] = [at |-> size, past |-> 0]
      /\ f.atoms[n].past = Len(f.units)
      /\ f.atoms[n].at <= Len(f.bytes) /\ f.atoms[n].at + 8 > Len(f.bytes)
      /\ \A k \in 1 .. n - 1 : SoundAtom(f, k)

SoundFile(f) ==
  /\ \A i \in DOMAIN f.units : SoundUnit(f, f.units[i])
  /\ \A i, j \in DOMAIN f.units :
       i < j => f.units[i].at + f.units[i].len + StartCodeSz <= f.units[j].at
  /\ SoundDelimited(f) \/ SoundBoxed(f)

ASSUME FilesAssumption ==
  /\ \A i \in DOMAIN Files : /\ FileType(Files[i])
                             /\ Files[i].sound => SoundFile(Files[i])
  /\ Fields \subseteq 1 .. 32
  /\ DataBufSize \in Nat /\ DataBufSize > StartCodeSz

-----------------------------------------------------------------------------
VARIABLES
  file,     \* the input file
  pc,       \* the loop the program is in, or why it ended
  r,        \* decoder->reader
  delim,    \* NAL_start_delim: the units are separated by start codes
  size,     \* what is left of the atom, an int64
  origEnd,  \* orig_end
  prevOff,  \* prev_offt
  nalSize,  \* NAL_size
  nal,      \* NAL_offset
  type,     \* nal.unit_type
  asked,    \* more_rbsp_data has answered that there is more
  seen,     \* history: where the units dispatched begin, up to one too many
  got,      \* history: the bits read of the present unit, until one strays
  stray,    \* history: the parser has read what is not syntax of its unit,
            \* and the program has not come back to where the unit put it
  lost      \* history: a parser has strayed over a start code

atomVars == <<delim, size, origEnd, prevOff, nalSize>>
unitVars == <<nal, type, asked>>
track    == <<stray, lost>>
vars == <<file, pc, r, atomVars, unitVars, seen, got, track>>

Loops == {"probe", "atom", "mdat", "seek", "nal", "parse", "engine", "after"}
Ends  == {"data_end", "assert", "malformed"}

data  == file.bytes
Units == file.units
Past  == Len(seen)   \* the units dispatched so far

(* The program is where the author of the file put its units.              *)
OnTrack == file.sound /\ ~lost

Word(bits, i) == SubSeq(bits, 32 * i - 31, 32 * i)

TypeOK ==
  /\ FileType(file)
  /\ pc \in Loops \union Ends
  /\ r \in Reader
  /\ delim \in BOOLEAN /\ asked \in BOOLEAN /\ stray \in BOOLEAN /\ lost \in BOOLEAN
  /\ size \in Int
  /\ {origEnd, prevOff, nalSize, nal} \subseteq 0 .. Width - 1
  /\ type \in 0 .. 31
  /\ seen \in Seq(0 .. Width - 1)
  /\ got \in Seq(Bit)

(* decoder_init                                                            *)
Init ==
  /\ \E i \in DOMAIN Files : file = Files[i]
  /\ pc = "probe"
  /\ r = bitstream_init(Len(data))
  /\ delim = FALSE
  /\ size = 0 /\ origEnd = 0 /\ prevOff = 0 /\ nalSize = 0
  /\ nal = 0 /\ type = 0 /\ asked = FALSE
  /\ seen = <<>> /\ got = <<>> /\ stray = FALSE /\ lost = FALSE

(* exit(0) in check_range                                                  *)
DataEnds ==
  /\ pc' = "data_end"
  /\ UNCHANGED <<file, r, atomVars, unitVars, seen, got>>

-----------------------------------------------------------------------------
(***************************************************************************)
(* The container.                                                          *)
(***************************************************************************)
(* is_MP4 reads the header of the ftyp atom, brand and version, and one    *)
(* word for each further four bytes of it; a size below 16 wraps that      *)
(* count.  More words than the file has end the program all the same.      *)
FtypWords(n) == 2 + (((n \div 4) - 4) % Width)

IsFtyp(bits) ==
  LET n == Number(Word(bits, 1))
  IN  n % 4 = 0 /\ n >= 8 /\ Word(bits, 2) = ftyp

Probe ==
  /\ pc = "probe"
  /\ UNCHANGED track
  /\ LET head == ReadAll(data, r, <<32, 32>>)
         rest == ReadAll(data, head.r,
                   [i \in 1 .. Min({FtypWords(Number(Word(head.bits, 1))),
                                    r.end \div 4}) |-> 32])
     IN  \/ head.out /\ DataEnds
         \/ /\ ~head.out /\ ~IsFtyp(head.bits)
            /\ r' = [r EXCEPT !.off = 0, !.shift = 0]
            /\ delim' = TRUE
            /\ pc' = "seek"
            /\ UNCHANGED <<file, size, origEnd, prevOff, nalSize, unitVars,
                           seen, got>>
         \/ ~head.out /\ IsFtyp(head.bits) /\ rest.out /\ DataEnds
         \/ /\ ~head.out /\ IsFtyp(head.bits) /\ ~rest.out
            /\ r' = rest.r
            /\ pc' = "atom"
            /\ UNCHANGED <<file, atomVars, unitVars, seen, got>>

(* read_atom_header, and what an atom other than mdat leads to             *)
Atom ==
  /\ pc = "atom"
  /\ UNCHANGED track
  /\ LET head == ReadAll(data, r, <<32, 32>>)
         left == Number(Word(head.bits, 1)) - 8
     IN  \/ head.out /\ DataEnds
         \/ /\ ~head.out
            /\ size' = left
            /\ \/ left < 0 /\ pc' = "assert" /\ r' = head.r /\ UNCHANGED origEnd
               \/ /\ left >= 0 /\ Word(head.bits, 2) = mdat
                  /\ pc' = "mdat"
                  /\ r' = head.r
                  /\ origEnd' = r.end
               \/ /\ left >= 0 /\ Word(head.bits, 2) # mdat
                  /\ r' = [head.r EXCEPT !.off = (@ + left) % Width]
                  /\ UNCHANGED <<pc, origEnd>>
            /\ UNCHANGED <<file, delim, prevOff, nalSize, unitVars, seen, got>>

(* The size word of the next unit of the mdat atom                         *)
UnitSize ==
  /\ pc = "mdat"
  /\ UNCHANGED track
  /\ LET word == ReadU(data, r, 32)
     IN  \/ word.out /\ DataEnds
         \/ /\ ~word.out
            /\ nalSize' = Number(word.bits)
            /\ prevOff' = word.r.off
            /\ r' = [word.r EXCEPT !.end = (word.r.off + nalSize') % Width]
            /\ pc' = "nal"
            /\ UNCHANGED <<file, delim, size, origEnd, unitVars, seen, got>>

(* A mutant: the reader's end is left at the end of the unit.              *)
PastUnitShut(end) == end

(* The end is moved so that the size word of the next unit can be read.    *)
PastUnit(end) == (end + 4) % Width

AfterUnit ==
  /\ pc = "after"
  /\ ~delim
  /\ size' = size - ((nalSize + 4) % Width)
  /\ pc' = CASE size' > 0 -> "mdat"
             [] size' = 0 -> "atom"
             [] size' < 0 -> "assert"
  /\ r' = [r EXCEPT !.off   = (prevOff + nalSize) % Width,
                    !.end   = IF size' > 0 THEN PastUnit(@) ELSE origEnd,
                    !.shift = 0,
                    !.rbsp  = FALSE]
  /\ stray' = FALSE
  /\ UNCHANGED <<file, delim, origEnd, prevOff, nalSize, unitVars, seen, got, lost>>

-----------------------------------------------------------------------------
(***************************************************************************)
(* Start codes.                                                            *)
(***************************************************************************)
(* seek_to_NAL_start: byte by byte, until a start code or the end.         *)
Seek ==
  /\ pc = "seek"
  /\ UNCHANGED track
  /\ LET stops == {o \in r.off .. r.end :
                     ReachesEnd([r EXCEPT !.off = o], 3) \/ StartCode(data, o) > 0}
         stop  == [r EXCEPT !.off = Min(stops \union {r.end}), !.shift = 0]
     IN  \/ ReachesEnd(stop, 3) /\ DataEnds
         \/ /\ ~ReachesEnd(stop, 3)
            /\ r' = [stop EXCEPT !.off = (@ + StartCode(data, @)) % Width]
            /\ pc' = "nal"
            /\ UNCHANGED <<file, atomVars, unitVars, seen, got>>

-----------------------------------------------------------------------------
(***************************************************************************)
(* parse_NAL.                                                              *)
(***************************************************************************)
StartUnit ==
  /\ pc = "nal"
  /\ UNCHANGED track
  /\ LET head == ReadAll(data, [r EXCEPT !.rbsp = TRUE], <<1, 2, 5>>)
         kind == Number(SubSeq(head.bits, 4, 8))
     IN  \/ head.out /\ DataEnds
         \/ /\ ~head.out
            /\ nal' = r.off
            /\ r' = head.r
            /\ type' = kind
            /\ pc' = CASE head.bits[1] = 1 -> "malformed"
                       [] head.bits[1] = 0 /\ kind \in Slice \union ParameterSet
                            -> "parse"
                       [] OTHER -> "after"
            /\ asked' = FALSE
            /\ seen' = IF Len(seen) > Len(file.units) THEN seen
                       ELSE Append(seen, r.off)
            /\ got' = head.bits
            /\ UNCHANGED <<file, atomVars>>

(* Syntax ends before the bit that ends the unit's data.                   *)
DataBits(u) ==
  LET bits == RbspBits(u)
  IN  Max({0} \union {i \in DOMAIN bits : bits[i] = 1}) - 1

(* The unit the program is in, on track                                    *)
Unit == file.units[CHOOSE i \in DOMAIN file.units : file.units[i].at = nal]

(* What the unit still holds for its parser                                *)
Syntax == SubSeq(RbspBits(Unit), Len(got) + 1, DataBits(Unit))

(* What is read next is syntax of the unit, or it is not.                  *)
StraysUnless(syntax) == stray' = (stray \/ (OnTrack /\ ~syntax))

(* The bits read, until the parser strays                                  *)
Gets(bits) == got' = IF stray' THEN <<>> ELSE got \o bits

(* The parsers read a field of n bits, or a code; one that is syntax       *)
(* begins with at most 31 zeros.                                           *)
FieldFits(n) == n <= Len(Syntax)

CodeFits ==
  LeadingZeros(Syntax) < 32 /\ 2 * LeadingZeros(Syntax) + 1 <= Len(Syntax)

ReadField(n) ==
  /\ pc = "parse"
  /\ StraysUnless(FieldFits(n)) /\ UNCHANGED lost
  /\ LET field == ReadU(data, r, n)
     IN  \/ field.out /\ DataEnds
         \/ /\ ~field.out
            /\ r' = field.r
            /\ Gets(field.bits)
            /\ UNCHANGED <<file, pc, atomVars, unitVars, seen>>

ReadCode ==
  /\ pc = "parse"
  /\ StraysUnless(CodeFits) /\ UNCHANGED lost
  /\ \E code \in {ReadUe(data, r)} :
         \/ code.out /\ DataEnds
         \/ /\ ~code.out
            /\ pc' = IF code.bad THEN "malformed" ELSE pc
            /\ r' = code.r
            /\ Gets(code.bits)
            /\ UNCHANGED <<file, atomVars, unitVars, seen>>

(* SYNTAX_ERR in a parser, DECODER_ERR when the engine is stuck            *)
Reject ==
  /\ pc \in {"parse", "engine"}
  /\ pc' = "malformed"
  /\ UNCHANGED <<file, r, atomVars, unitVars, seen, got, track>>

(***************************************************************************)
(* more_rbsp_data: the next bit is not the stop bit, or something follows  *)
(* it that is neither alignment nor zero bytes before the end of the unit. *)
(***************************************************************************)
(* is_end_of_NAL and the loop over it: how far the zero bytes go, and what *)
(* ends them.                                                              *)
EndOfUnit(rd, o) ==
  \/ o >= rd.end
  \/ delim /\ (ReachesEnd([rd EXCEPT !.off = o], 3) \/ StartCode(data, o) > 0)

TrailingZeros(rd) ==
  LET off == Min({o \in rd.off .. rd.end : EndOfUnit(rd, o) \/ ByteAt(data, o) # 0}
                   \union {Max({rd.off, rd.end})})
  IN  [off |-> off,
       is  |-> IF ~EndOfUnit(rd, off) THEN "more"
               ELSE IF off < rd.end /\ delim /\ ReachesEnd([rd EXCEPT !.off = off], 3)
               THEN "out"
               ELSE "end"]

(* A mutant: what follows the stop bit in its byte is not looked at.       *)
NoMoreUnaligned(stop, align, rest) ==
  stop.bits = <<1>> /\ rest.is # "more"

(* The three tests: stop bit, alignment, zero bytes.                       *)
NoMore(stop, align, rest) ==
  /\ stop.bits = <<1>>
  /\ \A i \in DOMAIN align.bits : align.bits[i] = 0
  /\ rest.is # "more"

MoreData(rd) ==
  LET stop  == ReadU(data, rd, 1)
      align == ReadAlign(data, [stop.r EXCEPT !.rbsp = FALSE])
      rest  == TrailingZeros(align.r)
  IN  IF stop.out \/ align.out THEN [is |-> "out", r |-> rd]
      ELSE IF NoMore(stop, align, rest)
      THEN [is |-> rest.is, r |-> [align.r EXCEPT !.off = rest.off]]
      ELSE [is |-> "more", r |-> [rd EXCEPT !.rbsp = TRUE]]

(* parse_SPS asks at its end, where nothing more may follow; parse_PPS     *)
(* before its optional part, and again after it.                           *)
AskMoreData ==
  /\ pc = "parse" /\ type \in ParameterSet
  /\ UNCHANGED track
  /\ LET answer == MoreData(r)
     IN  \/ answer.is = "out" /\ DataEnds
         \/ /\ answer.is = "end"
            /\ r' = answer.r
            /\ pc' = "after"
            /\ UNCHANGED <<file, atomVars, unitVars, seen, got>>
         \/ /\ answer.is = "more"
            /\ r' = answer.r
            /\ pc' = IF type = 7 \/ asked THEN "malformed" ELSE pc
            /\ asked' = TRUE
            /\ UNCHANGED <<file, atomVars, nal, type, seen, got>>

-----------------------------------------------------------------------------
(***************************************************************************)
(* tegra_VDE_decode_frame: the data for the engine, and where it stopped.  *)
(***************************************************************************)
EndHeader ==
  /\ pc = "parse" /\ type \in Slice
  /\ pc' = "engine"
  /\ UNCHANGED <<file, r, atomVars, unitVars, seen, got, track>>

(* A mutant: the start code put before the data is not counted.            *)
DataEndBeyond(start, end) == Min({start + DataBufSize + StartCodeSz,
                                  end + StartCodeSz})

(* data_end: as much of the unit as the buffer holds behind the start code *)
(* that init_mem put there.                                                *)
DataEnd(start, end) == Min({start + DataBufSize, end + StartCodeSz})

DataSize == DataEnd(nal, r.end) - nal

(* The bytes copied: [nal, nal + Copied)                                   *)
Copied == DataSize - StartCodeSz

(* External: the engine reads the unit, or the part it was given, as far   *)
(* as it likes, and never past a start code.                               *)
SXE_parsed ==
  {StartCodeSz + k : k \in {n \in 0 .. Copied :
       \A o \in nal .. nal + n - 1 : delim => StartCode(data, o) = 0}}


ResumeAt(start, parsed) == (start + parsed - StartCodeSz) % Width

Decode ==
  /\ pc = "engine"
  /\ \E parsed \in SXE_parsed :
       r' = [r EXCEPT !.off = ResumeAt(nal, parsed)]
  /\ pc' = "after"
  /\ stray' = FALSE
  /\ UNCHANGED <<file, atomVars, unitVars, seen, got, lost>>

(* Nothing of the next start code has been passed.                         *)
BeforeNext(o) ==
  /\ Past > 0 => Units[Past].at <= o
  /\ Past < Len(Units) => o + StartCodeSz <= Units[Past + 1].at

(* The loop of parse_annex_b                                               *)
NextStartCode ==
  /\ pc = "after"
  /\ delim
  /\ r' = [r EXCEPT !.rbsp = FALSE]
  /\ pc' = "seek"
  /\ lost' = (lost \/ (OnTrack /\ stray /\ ~BeforeNext(r.off)))
  /\ stray' = FALSE
  /\ UNCHANGED <<file, atomVars, unitVars, seen, got>>

Run ==
  \/ Probe
  \/ Atom
  \/ UnitSize
  \/ AfterUnit
  \/ Seek
  \/ NextStartCode
  \/ StartUnit
  \/ \E n \in Fields : ReadField(n)
  \/ ReadCode
  \/ Reject
  \/ AskMoreData
  \/ EndHeader
  \/ Decode

Ended == pc \in Ends /\ UNCHANGED vars

Next == Run \/ Ended

(* The program keeps running until it ends.  Some step is possible in      *)
(* every loop and Ended changes nothing, so this is WF_vars(Run), said     *)
(* without ENABLED Run.                                                    *)
KeepsRunning == <>[](pc \in Ends) \/ []<><<TRUE>>_vars

Spec == Init /\ [][Next]_vars /\ KeepsRunning

-----------------------------------------------------------------------------
(***************************************************************************)
(* The inductive invariant behind the properties: where the program is in  *)
(* a sound file, for as long as no parser strays over a start code.        *)
(***************************************************************************)
(* The reader has read n bits of the unit u.                               *)
StandsAt(rd, u, n) ==
  /\ rd.shift = n % 8
  /\ rd.off = IF n % 8 # 0 THEN u.place[(n \div 8) + 1]
              ELSE IF n = 0 THEN u.at ELSE u.place[n \div 8] + 1

(* The i-th unit is in an mdat atom, of which `left' bytes follow from o on*)
InAtom(i, o, left) ==
  \E k \in 1 .. Len(file.atoms) - 1 :
    /\ WordAt(data, file.atoms[k].at + 4) = mdat
    /\ file.atoms[k].past < i /\ i <= file.atoms[k + 1].past
    /\ left = file.atoms[k + 1].at - o

(* What the container knows of the i-th unit                               *)
Bounded(i) ==
  IF delim THEN r.end = Len(data)
  ELSE /\ r.end = Units[i].at + Units[i].len
       /\ prevOff = Units[i].at /\ nalSize = Units[i].len
       /\ origEnd = Len(data)
       /\ InAtom(i, Units[i].at - 4, size)

(* The units dispatched are the first ones, and the parser's bits are the  *)
(* beginning of the last.                                                  *)
UnitKept ==
  /\ Past <= Len(Units)
  /\ \A i \in 1 .. Past : seen[i] = Units[i].at
  /\ Past > 0 => /\ nal = Units[Past].at /\ type = Kind(Units[Past])
                 /\ IsPrefix(got, RbspBits(Units[Past]))

WhereProbing ==
  pc = "probe" => Past = 0 /\ ~delim /\ r = bitstream_init(Len(data))

(* Behind a unit and before the next start code                            *)
WhereSeeking ==
  pc = "seek" => delim /\ ~r.rbsp /\ r.end = Len(data) /\ BeforeNext(r.off)

(* At the header of an atom                                                *)
WhereInAtoms ==
  pc = "atom" =>
    /\ ~delim /\ ~r.rbsp /\ r.shift = 0 /\ r.end = Len(data)
    /\ \E k \in 1 .. Len(file.atoms) :
         file.atoms[k] = [at |-> r.off, past |-> Past]

(* At the size word of the next unit of an mdat atom                       *)
WhereAtSize ==
  pc = "mdat" =>
    /\ ~delim /\ ~r.rbsp /\ r.shift = 0 /\ origEnd = Len(data)
    /\ Past < Len(Units)
    /\ Units[Past + 1].at = r.off + 4 /\ r.off + 3 < r.end
    /\ Units[Past + 1].len = Number(WordAt(data, r.off))
    /\ InAtom(Past + 1, r.off, size)

(* At the first byte of the next unit                                      *)
WhereAtUnit ==
  pc = "nal" =>
    /\ Past < Len(Units) /\ r.off = Units[Past + 1].at /\ r.shift = 0
    /\ Bounded(Past + 1)

(* At the bit behind those read of a unit, and behind a unit, unless the   *)
(* parser has strayed                                                      *)
WhereInUnit ==
  pc \in {"parse", "engine", "after"} =>
    /\ Past > 0 /\ Bounded(Past)
    /\ pc = "parse" => type \in Slice \union ParameterSet
    /\ pc = "parse" /\ ~stray =>
         /\ Len(got) <= DataBits(Units[Past])
         /\ r.rbsp /\ StandsAt(r, Units[Past], Len(got))
    /\ pc = "after" /\ delim /\ ~stray => BeforeNext(r.off)

WhereEnded ==
  /\ pc = "data_end" => Past = Len(Units) \/ stray
  /\ pc # "assert"

WhereInFile ==
  /\ SoundFile(file)
  /\ pc \notin {"probe"} \union Ends => delim = (file.atoms = <<>>)
  /\ UnitKept /\ WhereProbing /\ WhereSeeking /\ WhereInAtoms /\ WhereAtSize
  /\ WhereAtUnit /\ WhereInUnit /\ WhereEnded

(* In a sound file the reader, the container's bounds and sizes, and what  *)
(* was dispatched agree on the place the program is at, and agree again    *)
(* after a parser has strayed, unless that was over a start code           *)
(* (bitstream.c:261-302, MP4.c:87-127, ANNEX_B.c:22-39, decoder.c:848).    *)
IInv == TypeOK /\ (lost => delim) /\ (OnTrack => WhereInFile)

-----------------------------------------------------------------------------
(* However a unit is split into fields and codes, the parsers get its bits *)
(* in order, each once and none of the emulation prevention bytes: the     *)
(* escape and the advance together move data_offset right (bitstream.c:    *)
(* 185-219, 261-302), also where a code looks ahead (bitstream.c:332-385). *)
RbspInOrder ==
  OnTrack /\ seen # <<>> => IsPrefix(got, RbspBits(Unit))

(* The units of a sound file are dispatched in order, each once, wherever  *)
(* the engine stopped in them (decoder.c:848) and however bitstream_end    *)
(* was moved (MP4.c:99-115), until a parser strays over a start code; that *)
(* never happens where units have sizes.  The end of the data ends the     *)
(* program after the last unit or under a parser that has strayed, and no  *)
(* size assertion of the container fails (MP4.c:40, 122).                  *)
UnitsInOrder ==
  /\ lost => delim
  /\ OnTrack =>
       LET at == [i \in DOMAIN file.units |-> file.units[i].at]
       IN  /\ IsPrefix(seen, at)
           /\ pc = "data_end" => seen = at \/ stray
           /\ pc # "assert"

(* more_rbsp_data (SPS.c:31-62) answers as the stop bit's place says and   *)
(* puts the reader back if there is more, and the end of the data never    *)
(* cuts a parser short that reads the syntax of its unit.                  *)
MoreDataRight ==
  [][OnTrack /\ ~stray' /\ pc = "parse" =>
       /\ pc' # "data_end"
       /\ AskMoreData => IF Len(got) = DataBits(Unit) THEN pc' = "after"
                         ELSE pc' # "after" /\ r' = r]_vars

(* The engine is given a whole unit or a full buffer, nothing from beyond  *)
(* the file and, where units have sizes, nothing of the next unit          *)
(* (decoder.c:701-712).                                                    *)
SliceGiven ==
  OnTrack /\ pc = "engine" =>
    /\ DataSize <= DataBufSize
    /\ nal + Copied <= Len(data)
    /\ Copied >= Unit.len \/ DataSize = DataBufSize
    /\ ~delim => Copied <= Unit.len

=============================================================================
