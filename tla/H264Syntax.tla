------------------------------ MODULE H264Syntax ------------------------------
(***************************************************************************)
(* What the Windows preview reads of a coded picture: the units of an      *)
(* Annex B access unit (core/h264_annex_b.cpp) and, of a sequence          *)
(* parameter set, the size of the picture                                  *)
(* (win32_h264_preview_renderer.cpp).  Beside each stands the writer that  *)
(* the H.264 standard defines.                                             *)
(***************************************************************************)
EXTENDS Integers, SequencesExt, FiniteSetsExt, TLC

(***************************************************************************)
(* Annex B.  Offsets count from 1.                                         *)
(***************************************************************************)
StartCodeLengthAt(t, i) ==
  CASE i + 2 <= Len(t) /\ SubSeq(t, i, i + 2) = <<0, 0, 1>>    -> 3
    [] i + 3 <= Len(t) /\ SubSeq(t, i, i + 3) = <<0, 0, 0, 1>> -> 4
    [] OTHER -> 0

\* The first start code at or after i; past the end if there is none.
NextStart(t, i) ==
  Min({j \in i..Len(t) : StartCodeLengthAt(t, j) # 0} \cup {Max({i, Len(t) + 1})})

RECURSIVE SplitFrom(_, _)
SplitFrom(t, i) ==
  LET code  == NextStart(t, i)
      first == code + StartCodeLengthAt(t, code)
      end   == NextStart(t, first)
      unit  == IF end > first THEN <<SubSeq(t, first, end - 1)>> ELSE <<>>
  IN IF code > Len(t) THEN <<>> ELSE unit \o SplitFrom(t, end)
SplitAnnexB(t) == SplitFrom(t, 1)

\* A stream: each unit after a start code of 3 or 4 bytes.
Stream(units, long) ==
  FlattenSeq([i \in DOMAIN units |-> (IF long[i] THEN <<0, 0, 0, 1>> ELSE <<0, 0, 1>>) \o units[i]])

(***************************************************************************)
(* Emulation prevention: no start code inside a unit.                      *)
(***************************************************************************)
UnescapeStep(s, byte) ==
  IF s.zeros = 2 /\ byte = 3 THEN [s EXCEPT !.zeros = 0]
  ELSE [out |-> Append(s.out, byte), zeros |-> IF byte = 0 THEN s.zeros + 1 ELSE 0]
\* The first byte is the unit's header.
RbspFromNalUnit(nal) == FoldLeft(UnescapeStep, [out |-> <<>>, zeros |-> 0], Tail(nal)).out

EscapeStep(s, byte) ==
  LET stuffed == s.zeros = 2 /\ byte <= 3
  IN [out |-> s.out \o (IF stuffed THEN <<3, byte>> ELSE <<byte>>),
      zeros |-> IF byte # 0 THEN 0 ELSE IF stuffed THEN 1 ELSE s.zeros + 1]
Escape(header, rbsp) == FoldLeft(EscapeStep, [out |-> <<header>>, zeros |-> 0], rbsp).out

\* Units come out of a stream as they went in, and their contents with them.
SplitsIntoUnits(contents, long) ==
  LET units == [i \in DOMAIN contents |-> Escape(7, contents[i])]
  IN /\ SplitAnnexB(Stream(units, long)) = units
     /\ \A i \in DOMAIN units : RbspFromNalUnit(units[i]) = contents[i]

(***************************************************************************)
(* BitReader.  A reader is the bits that are left, and what has been read; *)
(* one that has failed stays so.                                           *)
(***************************************************************************)
Value(bits) == FoldLeft(LAMBDA v, b : 2 * v + b, 0, bits)

Keep(r, name, value, used) ==
  [r EXCEPT !.bits = SubSeq(@, used + 1, Len(@)), !.read = (name :> value) @@ @]
ReadBits(r, name, n) ==
  IF ~r.ok \/ Len(r.bits) < n THEN [r EXCEPT !.ok = FALSE]
  ELSE Keep(r, name, Value(SubSeq(r.bits, 1, n)), n)

\* MaxZeros stands for the code's 31.  With no bit left the code is 0 and not a failure.
MaxZeros == 12
ReadUE(r, name) ==
  LET ones  == {i \in DOMAIN r.bits : r.bits[i] = 1}
      zeros == IF ones = {} THEN Len(r.bits) ELSE Min(ones) - 1
      used  == IF r.bits = <<>> THEN 0 ELSE 2 * zeros + 1
  IN IF ~r.ok \/ zeros > MaxZeros \/ Len(r.bits) < used THEN [r EXCEPT !.ok = FALSE]
     ELSE Keep(r, name, 2^zeros - 1 + Value(SubSeq(r.bits, zeros + 2, used)), used)

\* An odd code is a positive number.
Signed(u, name) ==
  IF ~u.ok THEN u
  ELSE [u EXCEPT !.read[name] = IF @ % 2 = 1 THEN (@ + 1) \div 2 ELSE -(@ \div 2)]
ReadSE(r, name) == Signed(ReadUE(r, name), name)

\* Fields in their order: of n bits, or a code without or with a sign.
U(name, n) == <<name, "u", n>>
Ue(name) == <<name, "ue", 0>>
Se(name) == <<name, "se", 0>>
ReadField(r, f) ==
  CASE f[2] = "u" -> ReadBits(r, f[1], f[3])
    [] f[2] = "ue" -> ReadUE(r, f[1])
    [] f[2] = "se" -> ReadSE(r, f[1])
Read(r, fields) == FoldLeft(ReadField, r, fields)

\* More fields, or more work, when the one just read calls for it.
Has(r, name, values) == r.ok /\ r.read[name] \in values
ReadIf(r, name, values, fields) == IF Has(r, name, values) THEN Read(r, fields) ELSE r

(***************************************************************************)
(* parseSPSDimensions.  ScalingSize stands for lists of 16 and 64.         *)
(***************************************************************************)
HighProfiles == {100, 110, 122, 244, 44, 83, 86, 118, 128, 138, 139, 134, 135}
ScalingSize(i) == IF i < 6 THEN 2 ELSE 4

\* Nothing more of a list is read once its next scale is 0.
ScalingStep(s, i) ==
  IF ~s.reader.ok \/ s.next = 0 THEN s
  ELSE LET d == ReadSE(s.reader, "delta")
           n == (s.last + d.read["delta"] + 256) % 256
       IN IF d.ok THEN [reader |-> d, last |-> IF n = 0 THEN s.last ELSE n, next |-> n]
          ELSE [s EXCEPT !.reader = d]
SkipScalingList(r, size) ==
  FoldLeft(ScalingStep, [reader |-> r, last |-> 8, next |-> 8], [i \in 1..size |-> i]).reader

SkipPresent(p, i) == IF Has(p, "listPresent", {1}) THEN SkipScalingList(p, ScalingSize(i)) ELSE p
SkipList(r, i) == SkipPresent(ReadBits(r, "listPresent", 1), i)

SkipMatrix(m) ==
  IF Has(m, "matrix", {1})
  THEN FoldLeft(SkipList, m, [i \in 1..(IF m.read["chroma"] = 3 THEN 12 ELSE 8) |-> i - 1])
  ELSE m
SkipHigh(r) ==
  SkipMatrix(Read(ReadIf(ReadUE(r, "chroma"), "chroma", {3}, <<U("separate", 1)>>),
                  <<Ue("luma"), Ue("chromaDepth"), U("bypass", 1), U("matrix", 1)>>))

SkipOffsets(c) == IF c.ok THEN Read(c, [i \in 1..c.read["cycle"] |-> Se("offset")]) ELSE c
OrderFields(t) ==
  IF Has(t, "order", {1})
  THEN SkipOffsets(Read(t, <<U("delta0", 1), Se("nonRef"), Se("topBottom"), Ue("cycle")>>))
  ELSE ReadIf(t, "order", {0}, <<Ue("orderBits")>>)
SkipOrder(r) == OrderFields(ReadUE(r, "order"))

ReadCrop(r) ==
  ReadIf(ReadBits(r, "cropped", 1), "cropped", {1}, <<Ue("left"), Ue("right"), Ue("top"), Ue("bottom")>>)

\* The picture: coded and visible size, and where the visible part begins.
Dimensions_OneUnit(r) ==
  LET v     == r.read
      fields == 2 - v["frames"]
      w     == (v["width"] + 1) * 16
      h     == fields * (v["height"] + 1) * 16
      visible == [w |-> w - (v["left"] + v["right"]) * 2,
                  h |-> h - (v["top"] + v["bottom"]) * 2]
  IN IF ~r.ok \/ visible.w <= 0 \/ visible.h <= 0 THEN "none"
     ELSE [width |-> w, height |-> h, visible |-> visible,
           left |-> v["left"] * 2, top |-> v["top"] * 2]
Dimensions(r) ==
  LET v     == r.read
      fields == 2 - v["frames"]
      unitX == IF v["chroma"] \in {1, 2} THEN 2 ELSE 1
      unitY == IF v["chroma"] = 1 THEN 2 * fields ELSE fields
      w     == (v["width"] + 1) * 16
      h     == fields * (v["height"] + 1) * 16
      visible == [w |-> w - (v["left"] + v["right"]) * unitX,
                  h |-> h - (v["top"] + v["bottom"]) * unitY]
  IN IF ~r.ok \/ visible.w <= 0 \/ visible.h <= 0 THEN "none"
     ELSE [width |-> w, height |-> h, visible |-> visible,
           left |-> v["left"] * unitX, top |-> v["top"] * unitY]

ProfileFields(head) == IF Has(head, "profile", HighProfiles) THEN SkipHigh(head) ELSE head
ParseSPS(bits) ==
  LET zero  == [n \in {"left", "right", "top", "bottom"} |-> 0] @@ ("chroma" :> 1)
      head  == Read([bits |-> bits, ok |-> TRUE, read |-> zero],
                    <<U("profile", 8), U("constraints", 8), U("level", 8), Ue("id")>>)
      order == SkipOrder(ReadUE(ProfileFields(head), "frameNum"))
      size  == Read(order, <<Ue("refs"), U("gaps", 1), Ue("width"), Ue("height"), U("frames", 1)>>)
      field == ReadIf(size, "frames", {0}, <<U("adaptive", 1)>>)
  IN Dimensions(ReadCrop(ReadBits(field, "direct", 1)))

(***************************************************************************)
(* The standard's syntax of a parameter set, as a writer.                  *)
(***************************************************************************)
Bits(n, v) == [i \in 1..n |-> (v \div 2^(n - i)) % 2]
UE(v) == LET z == CHOOSE k \in 0..20 : 2^k <= v + 1 /\ v + 1 < 2^(k + 1)
         IN Bits(z, 0) \o Bits(z + 1, v + 1)
SE(v) == UE(IF v > 0 THEN 2 * v - 1 ELSE -2 * v)

\* One list is present; its second step makes the rest of it the default.
Matrix(p) ==
  LET lists == IF p.chroma = 3 THEN 12 ELSE 8
  IN IF ~p.matrix THEN <<0>>
     ELSE <<1>> \o FlattenSeq([i \in 1..lists |->
            IF i = 7 THEN <<1>> \o SE(4) \o SE(-12) ELSE IF i = 2 THEN <<1>> \o SE(1) \o SE(1)
            ELSE <<0>>])
High(p) ==
  IF p.profile \notin HighProfiles THEN <<>>
  ELSE UE(p.chroma) \o (IF p.chroma = 3 THEN <<0>> ELSE <<>>) \o UE(0) \o UE(2) \o <<0>> \o Matrix(p)
Order(p) ==
  UE(p.order) \o CASE p.order = 0 -> UE(4)
                   [] p.order = 1 -> <<0>> \o SE(-3) \o SE(2) \o UE(2) \o SE(5) \o SE(-1)
                   [] OTHER -> <<>>
UpToCrop(p) ==
  Bits(8, p.profile) \o Bits(8, 0) \o Bits(8, 31) \o UE(0) \o High(p) \o UE(3) \o Order(p)
  \o UE(1) \o <<0>> \o UE(p.width) \o UE(p.height) \o <<p.frames>>
  \o (IF p.frames = 0 THEN <<0>> ELSE <<>>) \o <<1>>
WriteSPS(p) ==
  UpToCrop(p)
  \o (IF p.crop = <<0, 0, 0, 0>> THEN <<0>>
      ELSE <<1>> \o UE(p.crop[1]) \o UE(p.crop[2]) \o UE(p.crop[3]) \o UE(p.crop[4]))
  \o <<0, 1>>

\* The standard's picture, in luma samples: cropping counts chroma samples, of which
\* there are half as many across in 4:2:0 and 4:2:2 and half as many down in 4:2:0,
\* and of a field's lines.
Picture(p) ==
  LET chroma == IF p.profile \in HighProfiles THEN p.chroma ELSE 1
      across == IF chroma \in {1, 2} THEN 2 ELSE 1
      down   == (IF chroma = 1 THEN 2 ELSE 1) * (IF p.frames = 1 THEN 1 ELSE 2)
      w      == 16 * (p.width + 1)
      h      == 16 * (p.height + 1) * (IF p.frames = 1 THEN 1 ELSE 2)
  IN [width |-> w, height |-> h,
      visible |-> [w |-> w - across * (p.crop[1] + p.crop[2]),
                   h |-> h - down * (p.crop[3] + p.crop[4])],
      left |-> across * p.crop[1], top |-> down * p.crop[3]]

\* The size the preview is shown in is the size the phone encodes, and a set that is
\* cut short before its cropping gives none.
SizeIsRead(p) ==
  /\ ParseSPS(WriteSPS(p)) = Picture(p)
  /\ \A n \in 0..Len(UpToCrop(p)) : ParseSPS(SubSeq(WriteSPS(p), 1, n)) = "none"
=============================================================================
