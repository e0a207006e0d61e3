------------------------------ MODULE OtaProofs -----------------------------
(***************************************************************************)
(* Proofs about Ota, for every flash geometry, every set of images and     *)
(* every bound: an update never touches the sketch that executes; what     *)
(* end() stages is a whole image; and the bootloader, interrupted or not,  *)
(* ends with a whole sketch.                                               *)
(***************************************************************************)
EXTENDS Ota, SequenceTheorems, TLAPS

Writing == {"write", "stream", "flush", "program"}

UpdType == [size : Nat, start : Nat, cur : Nat, bufSize : Nat,
            buf : Seq(Cells), left : Seq(Cells),
            back : {"idle", "write", "stream", "verify"}, even : BOOLEAN,
            error : Errors, target : Images \cup {"none"}, md5 : Seq(Cells),
            src : Images, sent : Nat, ret : {"none", "true", "false"}]

RtcType == [valid : BOOLEAN, src : Nat, size : Nat,
            img : Images \cup {"none", "unchecked"}]

CpType == [saddr : Nat, daddr : Nat, left : Nat, buf : Seq(Cells), res : {0, 1}]

OtaTypeOK ==
    /\ pc \in Sketch \cup Boot \cup {"dead"}
    /\ flash \in [0 .. FlashEnd - 1 -> Cells]
    /\ rtc \in RtcType
    /\ running \in Images \cup {"torn"} /\ (pc # "dead" => running \in Images)
    /\ upd \in UpdType
    /\ cp \in CpType
    /\ resets \in 0 .. MaxResets

\* What begin() reserved: whole sectors above the running sketch and below
\* the file system, and every cell handed over so far is accounted for.
Reserved ==
    /\ RoundUp(BinSize(running)) <= upd.start
    /\ upd.start + RoundUp(upd.size) <= FlashEnd
    /\ upd.start % SectorSize = 0
    /\ upd.start <= upd.cur
    /\ upd.cur - upd.start + Len(upd.buf) + Len(upd.left) = upd.sent
    /\ upd.sent <= upd.size
    /\ upd.bufSize \in BufferSizes /\ Len(upd.buf) <= upd.bufSize

\* The update is under way exactly while _size is set, up to the last step of
\* end(); every error path has dropped it.
UpdInv ==
    /\ pc \in Writing => upd.size > 0
    /\ pc \in Boot \cup {"dead"} => upd = NoUpdate
    /\ upd.size > 0 /\ pc # "command" => Reserved
    /\ upd.size = 0 /\ pc # "command" => upd.start = 0 /\ upd.cur = 0 /\ upd.buf = <<>>
    /\ pc = "command" => /\ upd.start <= upd.cur /\ upd.cur - upd.start <= upd.size
                         /\ Len(upd.buf) <= upd.bufSize /\ upd.size <= FlashEnd
    /\ upd.left # <<>> => pc \in {"write", "flush", "program"} /\ upd.back = "write"
    /\ pc = "write" => upd.back = "write"
    /\ pc = "stream" => upd.back = "stream"
    /\ pc \in {"flush", "program"} => upd.back # "idle" /\ (upd.back = "verify" => upd.even)
    /\ pc = "verify" /\ ~upd.even => upd.cur = upd.start + upd.size

\* A command exists only between end() and the bootloader's last step, and
\* its image lies in the sketch area.
CommandInv ==
    /\ rtc.valid /\ pc \in Sketch => pc = "idle" /\ upd.size = 0
    /\ pc \in {"load", "dead"} => ~rtc.valid
    /\ rtc.src + RoundUp(rtc.size) <= FlashEnd

\* copy_raw() advances sector by sector through source and destination.
CopyInv ==
    /\ pc \in {"copy", "erase", "burn"} =>
         /\ rtc.valid /\ cp.res = 0
         /\ cp.saddr = rtc.src + cp.daddr
         /\ cp.daddr + cp.left = RoundUp(rtc.size)
         /\ cp.daddr % SectorSize = 0
         /\ rtc.src % SectorSize = 0
    /\ pc \in {"erase", "burn"} => cp.left > 0 /\ Len(cp.buf) = SectorSize
    /\ pc \notin {"copy", "erase", "burn", "clear", "load", "boot"} => cp = NoCopy
    /\ cp.saddr + cp.left <= FlashEnd

OtaInv == OtaTypeOK /\ UpdInv /\ CommandInv /\ CopyInv /\ SketchWhole

-----------------------------------------------------------------------------
(* What arrived and what is in flash *)

\* Cell a of the flash is cell i of image m.
Is(a, m, i) == flash[a].img = m /\ flash[a].pos = i

\* Without a signature: the flash holds what the MD5 was computed of, the rest
\* of a sector that was begun is erased, and only the last buffer is short.
DataInv ==
    ~Signed /\ upd.size > 0 /\ pc \in Sketch \ {"command"} =>
      /\ Len(upd.md5) = upd.cur - upd.start
      /\ \A i \in 1 .. Len(upd.md5) : Is(upd.start + i - 1, upd.md5[i].img, upd.md5[i].pos)
      /\ upd.cur % SectorSize # 0 \/ pc = "program" =>
           \A a \in Sector(upd.cur) : a >= upd.cur => flash[a] = Erased
      /\ pc # "verify" => \/ (upd.cur - upd.start) % upd.bufSize = 0
                          \/ upd.cur - upd.start = upd.size
      /\ pc \in {"flush", "program"} =>
           \/ Len(upd.buf) = upd.bufSize \/ upd.back = "verify"
           \/ Len(upd.buf) = upd.size - (upd.cur - upd.start)

StagedInv ==
    (rtc.valid \/ pc = "command") /\ rtc.img # "unchecked" =>
      /\ rtc.src % SectorSize = 0 /\ SectorSize <= rtc.src
      /\ rtc.img \in Images /\ rtc.size = BinSize(rtc.img)
      /\ Apart \/ pc \in Sketch \/ (pc = "boot" /\ resets = 0) =>
           Holds(flash, rtc.src, rtc.img)

\* Without a signature it matters that no flash operation failed: end() does
\* not look at the result of its last _writeBuffer().
NoFailure == ~FlashFails /\ upd.size = 0 => pc # "verify"

-----------------------------------------------------------------------------
(* The bootloader *)

Exempt == rtc.img = "unchecked" \/ (~Apart /\ resets > 0)

SomeSketch == \E m \in Images : Holds(flash, 0, m)

BootInv ==
    ~Exempt =>
      /\ pc \in {"copy", "erase", "burn"} =>
           /\ \A i \in 0 .. BinSize(rtc.img) - 1 :
                /\ i < cp.daddr => Is(i, rtc.img, i)
                /\ Apart \/ i >= cp.daddr => Is(rtc.src + i, rtc.img, i)
           /\ pc \in {"erase", "burn"} =>
                \A j \in 1 .. SectorSize : cp.daddr + j - 1 < BinSize(rtc.img) =>
                    cp.buf[j].img = rtc.img /\ cp.buf[j].pos = cp.daddr + j - 1
           /\ pc = "burn" => \A a \in Sector(cp.daddr) : flash[a] = Erased
      /\ pc = "clear" => rtc.valid /\ cp.res = 0 /\ Holds(flash, 0, rtc.img)
      /\ pc = "load" \/ (pc = "boot" /\ ~rtc.valid) => SomeSketch
      /\ pc # "dead"

-----------------------------------------------------------------------------
(* Sectors *)

LEMMA Geometry ==
    /\ SectorSize \in Nat \ {0} /\ FlashEnd \in Nat /\ FlashEnd % SectorSize = 0
    /\ Installed \in Images /\ Signed \in BOOLEAN
    /\ \A m \in Images : /\ Size[m] \in Nat /\ 2 <= Size[m] /\ Size[m] <= FlashEnd
                         /\ BinSize(m) \in Nat /\ 1 <= BinSize(m) /\ BinSize(m) <= Size[m]
  BY GeometryAssumption DEF BinSize

LEMMA RoundUpFacts ==
    ASSUME NEW n \in Nat
    PROVE  /\ RoundUp(n) \in Nat /\ n <= RoundUp(n) /\ RoundUp(n) % SectorSize = 0
           /\ n > 0 => SectorSize <= RoundUp(n)
<1>1. PICK k \in Nat : k = (n + SectorSize - 1) \div SectorSize
  BY Geometry
<1>2. RoundUp(n) = k * SectorSize /\ k * SectorSize \in Nat /\ (k * SectorSize) % SectorSize = 0
  BY <1>1, Geometry DEF RoundUp
<1>3. n <= k * SectorSize
  BY <1>1, Geometry
<1>4. n > 0 => k >= 1
  BY <1>1, Geometry
<1>5. k >= 1 => SectorSize <= k * SectorSize
  BY Geometry
<1> QED BY <1>2, <1>3, <1>4, <1>5

LEMMA RoundUpMono ==
    ASSUME NEW m \in Nat, NEW n \in Nat, m <= n
    PROVE  RoundUp(m) <= RoundUp(n)
<1>1. PICK j \in Nat : j = (m + SectorSize - 1) \div SectorSize
  BY Geometry
<1>2. PICK k \in Nat : k = (n + SectorSize - 1) \div SectorSize
  BY Geometry
<1>3. j <= k
  BY <1>1, <1>2, Geometry
<1>4. j * SectorSize <= k * SectorSize
  BY <1>3, Geometry
<1> QED BY <1>1, <1>2, <1>4 DEF RoundUp

\* Sums and differences of sector addresses are sector addresses.
LEMMA Aligned ==
    ASSUME NEW a \in Nat, NEW b \in Nat, a % SectorSize = 0, b % SectorSize = 0
    PROVE  /\ (a + b) % SectorSize = 0
           /\ b <= a => (a - b) % SectorSize = 0
           /\ b < a => b + SectorSize <= a
<1>1. PICK j \in Nat : a = j * SectorSize
  BY Geometry
<1>2. PICK k \in Nat : b = k * SectorSize
  BY Geometry
<1>3. a + b = (j + k) * SectorSize /\ a - b = (j - k) * SectorSize
  BY <1>1, <1>2, Geometry
<1>4. ((j + k) * SectorSize) % SectorSize = 0
  BY Geometry
<1>5. b <= a => k <= j
  BY <1>1, <1>2, Geometry
<1>6. k <= j => ((j - k) * SectorSize) % SectorSize = 0
  BY Geometry
<1>7. b < a => k + 1 <= j
  BY <1>1, <1>2, Geometry
<1>8. k + 1 <= j => (k + 1) * SectorSize <= j * SectorSize
  BY Geometry
<1> QED BY <1>1, <1>2, <1>3, <1>4, <1>5, <1>6, <1>7, <1>8, Geometry

\* A sector starts at a multiple of its size.
LEMMA SectorFacts ==
    ASSUME NEW a \in Nat, NEW b \in Sector(a)
    PROVE  /\ b \in 0 .. FlashEnd - 1
           /\ a % SectorSize = 0 => a <= b /\ b < a + SectorSize
  BY Geometry DEF Sector

-----------------------------------------------------------------------------
(* The object *)

LEMMA NoUpdateType == NoUpdate \in UpdType
  BY Geometry DEF NoUpdate, UpdType, Errors

LEMMA ResetFields ==
    ASSUME NEW u \in UpdType
    PROVE  /\ Reset(u) \in UpdType
           /\ Reset(u).size = 0 /\ Reset(u).start = 0 /\ Reset(u).cur = 0
           /\ Reset(u).buf = <<>> /\ Reset(u).left = <<>>
<1>1. PICK r : r = Reset(u)
  OBVIOUS
<1>2. r = [size |-> 0, start |-> 0, cur |-> 0, bufSize |-> u.bufSize, buf |-> <<>>,
           left |-> <<>>, back |-> "idle", even |-> u.even, error |-> u.error,
           target |-> u.target, md5 |-> u.md5, src |-> u.src, sent |-> u.sent, ret |-> u.ret]
  BY <1>1 DEF Reset, UpdType
<1>3. <<>> \in Seq(Cells)
  OBVIOUS
<1>4. r \in UpdType
  BY <1>2, <1>3 DEF UpdType
<1>5. r.size = 0 /\ r.start = 0 /\ r.cur = 0 /\ r.buf = <<>> /\ r.left = <<>>
  BY <1>2
<1> QED BY <1>1, <1>4, <1>5

LEMMA SetErrorFields ==
    ASSUME NEW u \in UpdType, NEW e \in Errors
    PROVE  /\ SetError(u, e) \in UpdType
           /\ SetError(u, e).size = 0 /\ SetError(u, e).start = 0 /\ SetError(u, e).cur = 0
           /\ SetError(u, e).buf = <<>> /\ SetError(u, e).left = <<>>
<1> DEFINE r == Reset(u)
<1>1. /\ r \in UpdType /\ r.size = 0 /\ r.start = 0 /\ r.cur = 0
      /\ r.buf = <<>> /\ r.left = <<>>
  BY ResetFields
<1>2. SetError(u, e) = [r EXCEPT !.error = e]
  BY DEF SetError
<1> HIDE DEF r
<1> QED BY <1>1, <1>2 DEF UpdType

LEMMA ReturnFields ==
    ASSUME NEW u \in UpdType, NEW v \in {"none", "true", "false"}
    PROVE  /\ Return(u, v) \in UpdType
           /\ Return(u, v).size = u.size /\ Return(u, v).start = u.start
           /\ Return(u, v).cur = u.cur /\ Return(u, v).buf = u.buf
           /\ Return(u, v).left = u.left
  BY DEF Return, UpdType

LEMMA DroppedInv ==
    ASSUME upd'.size = 0, upd'.start = 0, upd'.cur = 0, upd'.buf = <<>>, upd'.left = <<>>,
           pc' \in {"idle", "verify"}
    PROVE  UpdInv'
  BY DEF UpdInv, Writing, Boot

\* The cells that arrive are cells of the flash.
LEMMA DataType ==
    ASSUME upd \in UpdType, NEW n \in Nat, upd.sent + n <= FlashEnd, NEW d \in Data(n)
    PROVE  d \in Seq(Cells) /\ Len(d) = n
<1> DEFINE sent == [i \in 1 .. n |-> Cell(upd.src, upd.sent + i - 1)]
<1>1. \A i \in 1 .. n : sent[i] \in Cells
  BY Geometry, SMTT(30) DEF Cell, Cells, UpdType
<1>2. Garbage \in Cells
  BY DEF Cells
<1>3. sent \in [1 .. n -> Cells]
  BY <1>1
<1> HIDE DEF sent
<1> DEFINE damaged == [i \in 1 .. n |-> IF sent[i].pos \in Damageable THEN Garbage ELSE sent[i]]
<1>4. damaged \in [1 .. n -> Cells]
  BY <1>1, <1>2
<1>5. d = sent \/ d = damaged
  BY DEF Data, sent
<1> HIDE DEF damaged
<1> QED BY <1>3, <1>4, <1>5

-----------------------------------------------------------------------------
(* Steps of the sketch that leave the flash alone *)

LEMMA InitInv == Init => OtaInv
<1> SUFFICES ASSUME Init PROVE OtaInv
  OBVIOUS
<1> USE DEF Init, SharedInit, UpdInit, EbootInit
<1>1. flash \in [0 .. FlashEnd - 1 -> Cells]
  BY Geometry DEF Cell, Cells
<1>2. rtc \in RtcType /\ rtc.src = 0 /\ rtc.size = 0 /\ rtc.valid = FALSE
  BY DEF NoCommand, RtcType
<1>3. cp \in CpType /\ cp.saddr = 0 /\ cp.left = 0
  BY DEF NoCopy, CpType
<1>4. upd \in UpdType
  BY NoUpdateType
<1>5. OtaTypeOK
  BY <1>1, <1>2, <1>3, <1>4, OtaAssumption, Geometry DEF OtaTypeOK, Sketch
<1>6. UpdInv
  BY DEF UpdInv, NoUpdate, Writing, Boot
<1>7. CommandInv
  <2>1. RoundUp(0) = 0
    BY Geometry DEF RoundUp
  <2> QED BY <1>2, <2>1, Geometry DEF CommandInv
<1>8. CopyInv
  BY <1>3, Geometry DEF CopyInv
<1>9. SketchWhole
  <2>1. \A i \in 0 .. BinSize(Installed) - 1 : i \in 0 .. FlashEnd - 1
    BY Geometry
  <2> QED BY <2>1, Geometry DEF SketchWhole, Holds, Cell
<1> QED BY <1>5, <1>6, <1>7, <1>8, <1>9 DEF OtaInv

LEMMA QuietStep ==
    ASSUME OtaInv, pc \in Sketch, pc' \in Sketch, UNCHANGED <<flash, rtc, running, cp, resets>>,
           upd' \in UpdType, UpdInv', rtc.valid => pc' = "idle" /\ upd'.size = 0
    PROVE  OtaInv'
<1> USE DEF OtaInv
<1>1. OtaTypeOK'
  BY DEF OtaTypeOK, Sketch
<1>2. CommandInv'
  BY DEF CommandInv, Sketch
<1>3. CopyInv'
  BY DEF CopyInv, Sketch
<1>4. SketchWhole'
  BY DEF SketchWhole, Holds
<1> QED BY <1>1, <1>2, <1>3, <1>4

\* Every error path of the sketch drops the update as a whole.
LEMMA DropStep ==
    ASSUME OtaInv, pc \in Sketch, pc' \in {"idle", "verify"},
           UNCHANGED <<flash, rtc, running, cp, resets>>, rtc.valid => pc' = "idle",
           NEW u \in UpdType, u.size = 0, u.start = 0, u.cur = 0, u.buf = <<>>, u.left = <<>>,
           upd' = u
    PROVE  OtaInv'
<1>1. UpdInv'
  BY DroppedInv
<1> QED BY <1>1, QuietStep DEF Sketch

\* An update that goes on keeps what begin() reserved.
LEMMA GoOn ==
    ASSUME OtaInv, pc \in Sketch \ {"command"}, upd.size > 0, UNCHANGED running,
           upd' \in UpdType, pc' \in Writing \cup {"idle", "verify"},
           upd'.size = upd.size, upd'.start = upd.start, upd'.bufSize = upd.bufSize,
           upd.cur <= upd'.cur, Len(upd'.buf) <= upd.bufSize,
           upd'.cur - upd.start + Len(upd'.buf) + Len(upd'.left) = upd'.sent,
           upd'.sent <= upd.size,
           upd'.left # <<>> => pc' \in {"write", "flush", "program"} /\ upd'.back = "write",
           pc' = "write" => upd'.back = "write", pc' = "stream" => upd'.back = "stream",
           pc' \in {"flush", "program"} =>
              upd'.back # "idle" /\ (upd'.back = "verify" => upd'.even),
           pc' = "verify" /\ ~upd'.even => upd'.cur = upd.start + upd.size
    PROVE  UpdInv'
<1>1. Reserved
  BY DEF OtaInv, UpdInv
<1>2. upd.start \in Nat /\ upd.cur \in Nat /\ upd'.cur \in Nat /\ upd.size \in Nat
  BY DEF OtaInv, OtaTypeOK, UpdType
<1>3. Reserved'
  BY <1>1, <1>2 DEF Reserved
<1> QED BY <1>2, <1>3 DEF UpdInv, Writing, Boot

LEMMA RunningFacts ==
    ASSUME OtaInv, upd.size > 0, pc \in Sketch, pc # "command"
    PROVE  /\ Reserved /\ ~rtc.valid
           /\ upd \in UpdType /\ upd.size \in Nat /\ upd.start \in Nat /\ upd.cur \in Nat
           /\ upd.sent \in Nat /\ upd.bufSize \in Nat
           /\ upd.buf \in Seq(Cells) /\ upd.left \in Seq(Cells)
           /\ Len(upd.buf) \in Nat /\ Len(upd.left) \in Nat
           /\ upd.size <= FlashEnd
<1>1. Reserved /\ upd \in UpdType
  BY DEF OtaInv, UpdInv, OtaTypeOK
<1>2. /\ upd.size \in Nat /\ upd.start \in Nat /\ upd.cur \in Nat
      /\ upd.sent \in Nat /\ upd.bufSize \in Nat
      /\ upd.buf \in Seq(Cells) /\ upd.left \in Seq(Cells)
      /\ Len(upd.buf) \in Nat /\ Len(upd.left) \in Nat
  BY <1>1 DEF UpdType
<1>3. ~rtc.valid
  BY <1>2 DEF OtaInv, CommandInv
<1>4. upd.size <= FlashEnd
  <2>1. RoundUp(upd.size) \in Nat /\ upd.size <= RoundUp(upd.size)
    BY <1>2, RoundUpFacts
  <2> QED BY <1>1, <1>2, <2>1, Geometry, SMTT(30) DEF Reserved
<1> QED BY <1>1, <1>2, <1>3, <1>4

LEMMA BeginStep == ASSUME OtaInv, BeginCall, UNCHANGED <<cp, resets>> PROVE OtaInv'
<1>1. /\ pc = "idle" /\ pc' = "idle" /\ ~rtc.valid /\ pc \in Sketch
      /\ UNCHANGED <<flash, rtc, running, cp, resets>>
  BY DEF BeginCall, Sketch
<1>2. /\ upd \in UpdType /\ running \in Images
      /\ {"running", "refused", "space", "oom"} \subseteq Errors
  BY <1>1 DEF OtaInv, OtaTypeOK, Errors
<1>3. CASE BeginRunning \/ BeginRefused
  BY <1>1, <1>2, <1>3, SetErrorFields, DropStep DEF BeginRunning, BeginRefused
<1>4. ASSUME NEW m \in Images, NEW n \in {Size[m], FlashEnd - RoundUp(BinSize(running)), FlashEnd},
             Begin(m, n)
      PROVE  OtaInv'
  <2>1. PICK f : f = Fresh(m)
    OBVIOUS
  <2>2. /\ f \in UpdType /\ f.buf = <<>> /\ f.left = <<>> /\ f.sent = 0
    <3>1. PICK r \in UpdType : r = Reset(upd) /\ r.buf = <<>> /\ r.left = <<>>
      BY <1>2, ResetFields
    <3>2. f = [r EXCEPT !.error = "ok", !.target = "none", !.md5 = <<>>,
                        !.src = m, !.sent = 0, !.ret = "none"]
      BY <2>1, <3>1 DEF Fresh
    <3>3. f = [size |-> r.size, start |-> r.start, cur |-> r.cur, bufSize |-> r.bufSize,
               buf |-> r.buf, left |-> r.left, back |-> r.back, even |-> r.even,
               error |-> "ok", target |-> "none", md5 |-> <<>>, src |-> m, sent |-> 0,
               ret |-> "none"]
      BY <3>2 DEF UpdType
    <3>4. f.buf = <<>> /\ f.left = <<>> /\ f.sent = 0
      BY <3>1, <3>3
    <3>5. <<>> \in Seq(Cells) /\ "ok" \in Errors
      BY DEF Errors
    <3>6. f \in UpdType
      BY <3>3, <3>5 DEF UpdType
    <3> QED BY <3>4, <3>6
  <2>3. CASE \E e \in {"space", "oom"} : upd' = SetError(f, e)
    <3>1. PICK e \in {"space", "oom"} : upd' = SetError(f, e)
      BY <2>3
    <3>2. e \in Errors
      BY <1>2
    <3> QED BY <1>1, <2>2, <3>1, <3>2, SetErrorFields, DropStep
  <2>4. ASSUME SpaceFor(n), NEW b \in BufferSizes,
               upd' = [f EXCEPT !.start = StartAddress(n), !.cur = StartAddress(n),
                                !.size = n, !.bufSize = b]
        PROVE  OtaInv'
    <3>1. /\ b \in Nat /\ BinSize(running) \in Nat /\ BinSize(running) > 0
          /\ RoundUp(BinSize(running)) \in Nat /\ RoundUp(BinSize(running)) > 0
          /\ RoundUp(BinSize(running)) % SectorSize = 0
      BY <1>2, UpdaterAssumption, Geometry, RoundUpFacts
    <3>2. n \in Nat /\ n > 0 /\ RoundUp(n) \in Nat /\ RoundUp(n) % SectorSize = 0
      <4>1. n > 0
        BY <1>4, Zenon DEF Begin
      <4>2. n \in Int
        BY <3>1, Geometry
      <4> QED BY <4>1, <4>2, RoundUpFacts
    <3>3. /\ StartAddress(n) \in Nat /\ RoundUp(BinSize(running)) <= StartAddress(n)
          /\ StartAddress(n) = FlashEnd - RoundUp(n) /\ RoundUp(n) <= FlashEnd
      BY <2>4, <3>1, <3>2, Geometry DEF SpaceFor, StartAddress
    <3>4. StartAddress(n) % SectorSize = 0
      BY <3>2, <3>3, Geometry, Aligned
    <3>5. /\ upd'.size = n /\ upd'.start = StartAddress(n) /\ upd'.cur = StartAddress(n)
          /\ upd'.bufSize = b /\ upd'.buf = <<>> /\ upd'.left = <<>> /\ upd'.sent = 0
      BY <2>2, <2>4 DEF UpdType
    <3>6. upd' \in UpdType
      <4>1. upd' = [size |-> n, start |-> StartAddress(n), cur |-> StartAddress(n),
                    bufSize |-> b, buf |-> f.buf, left |-> f.left, back |-> f.back,
                    even |-> f.even, error |-> f.error, target |-> f.target, md5 |-> f.md5,
                    src |-> f.src, sent |-> f.sent, ret |-> f.ret]
        BY <2>2, <2>4 DEF UpdType
      <4> QED BY <2>2, <3>1, <3>2, <3>3, <4>1 DEF UpdType
    <3>7. Reserved'
      <4>1. Len(upd'.buf) = 0 /\ Len(upd'.left) = 0
        BY <3>5
      <4> QED BY <1>1, <3>1, <3>2, <3>3, <3>4, <3>5, <4>1, Geometry, SMTT(30) DEF Reserved
    <3>8. UpdInv'
      BY <1>1, <3>2, <3>5, <3>7 DEF UpdInv, Writing, Boot
    <3> QED BY <1>1, <3>6, <3>8, QuietStep
  <2> QED BY <1>4, <2>1, <2>3, <2>4 DEF Begin
<1> QED BY <1>3, <1>4 DEF BeginCall

LEMMA SetMD5Step == ASSUME OtaInv, SetMD5, UNCHANGED <<cp, resets>> PROVE OtaInv'
<1>1. /\ pc = "idle" /\ pc' = "idle" /\ upd.size > 0 /\ pc \in Sketch /\ pc # "command"
      /\ UNCHANGED <<flash, rtc, running, cp, resets>>
      /\ upd' = [upd EXCEPT !.target = upd.src]
  BY DEF SetMD5, Sketch, isRunning
<1>2. Reserved /\ ~rtc.valid /\ upd \in UpdType
  BY <1>1, RunningFacts
<1>3. upd' \in UpdType
  BY <1>1, <1>2 DEF UpdType
<1>4. /\ upd'.size = upd.size /\ upd'.start = upd.start /\ upd'.bufSize = upd.bufSize
      /\ upd'.cur = upd.cur /\ upd'.buf = upd.buf /\ upd'.left = upd.left
      /\ upd'.sent = upd.sent
  BY <1>1, <1>2 DEF UpdType
<1>5. UpdInv'
  <2>1. upd'.left = <<>>
    BY <1>1, <1>4 DEF OtaInv, UpdInv
  <2> QED BY <1>1, <1>2, <1>3, <1>4, <2>1, RunningFacts, GoOn DEF Reserved
<1> QED BY <1>1, <1>2, <1>3, <1>5, QuietStep

\* Both forms of write(): the data is handed over whole.
LEMMA HandOver ==
    ASSUME OtaInv, pc = "idle", upd.size > 0, pc' = "write",
           UNCHANGED <<flash, rtc, running, cp, resets>>,
           NEW n \in Nat, upd.sent + n <= upd.size, NEW d \in Data(n),
           upd' = [upd EXCEPT !.left = d, !.sent = upd.sent + n, !.back = "write"]
    PROVE  OtaInv'
<1>1. /\ Reserved /\ ~rtc.valid /\ upd \in UpdType /\ upd.sent \in Nat /\ upd.size \in Nat
      /\ upd.size <= FlashEnd
  BY RunningFacts DEF Sketch
<1>2. d \in Seq(Cells) /\ Len(d) = n
  BY <1>1, Geometry, DataType
<1>3. upd' \in UpdType
  <2>1. upd.sent + n \in Nat
    BY <1>1
  <2>2. upd' = [size |-> upd.size, start |-> upd.start, cur |-> upd.cur,
                bufSize |-> upd.bufSize, buf |-> upd.buf, left |-> d, back |-> "write",
                even |-> upd.even, error |-> upd.error, target |-> upd.target,
                md5 |-> upd.md5, src |-> upd.src, sent |-> upd.sent + n, ret |-> upd.ret]
    BY <1>1 DEF UpdType
  <2> QED BY <1>1, <1>2, <2>1, <2>2 DEF UpdType
<1>4. /\ upd'.size = upd.size /\ upd'.start = upd.start /\ upd'.bufSize = upd.bufSize
      /\ upd'.cur = upd.cur /\ upd'.buf = upd.buf /\ upd'.left = d /\ upd'.back = "write"
      /\ upd'.sent = upd.sent + n
  BY <1>1 DEF UpdType
<1>5. Len(upd.left) = 0
  <2>1. upd.left = <<>>
    BY DEF OtaInv, UpdInv
  <2> QED BY <2>1
<1>6. UpdInv'
  <2>1. upd.start \in Nat /\ upd.cur \in Nat /\ Len(upd.buf) \in Nat
    BY RunningFacts DEF Sketch
  <2> QED BY <1>1, <1>2, <1>3, <1>4, <1>5, <2>1, GoOn DEF Reserved, Sketch, Writing
<1> QED BY <1>1, <1>3, <1>6, QuietStep DEF Sketch

LEMMA WriteCallStep ==
    ASSUME OtaInv, WriteCall \/ WriteAvailable, UNCHANGED <<cp, resets>> PROVE OtaInv'
<1>1. /\ pc = "idle" /\ upd.size > 0 /\ UNCHANGED <<flash, rtc, running, cp, resets>>
  BY DEF WriteCall, WriteAvailable, isRunning
<1>2. /\ Reserved /\ ~rtc.valid /\ upd \in UpdType /\ upd.sent \in Nat /\ upd.size \in Nat
      /\ upd.start \in Nat /\ upd.cur \in Nat /\ Len(upd.buf) \in Nat /\ MaxChunk \in Nat
  BY <1>1, RunningFacts, UpdaterAssumption DEF Sketch
<1>3. upd.cur - upd.start + Len(upd.buf) = upd.sent
  <2>1. upd.left = <<>>
    BY <1>1 DEF OtaInv, UpdInv
  <2>2. Len(upd.left) = 0
    BY <2>1
  <2> QED BY <1>2, <2>2 DEF Reserved
<1>4. CASE \E n \in 1 .. MaxChunk : Fits(n) /\ pc' = "write" /\ \E d \in Data(n) :
                    upd' = [upd EXCEPT !.left = d, !.sent = @ + n, !.back = "write"]
  <2>1. PICK n \in 1 .. MaxChunk : Fits(n) /\ pc' = "write" /\ \E d \in Data(n) :
                    upd' = [upd EXCEPT !.left = d, !.sent = @ + n, !.back = "write"]
    BY <1>4
  <2>2. PICK d \in Data(n) :
           upd' = [upd EXCEPT !.left = d, !.sent = @ + n, !.back = "write"]
    BY <2>1
  <2>3. upd' = [upd EXCEPT !.left = d, !.sent = upd.sent + n, !.back = "write"]
    BY <1>2, <2>2 DEF UpdType
  <2>4. n \in Nat /\ upd.sent + n <= upd.size
    BY <1>2, <1>3, <2>1 DEF Fits, progress
  <2> QED BY <1>1, <2>1, <2>3, <2>4, HandOver
<1>5. CASE upd' = SetError(upd, "space") /\ pc' = pc
  <2>1. "space" \in Errors
    BY DEF Errors
  <2> QED BY <1>1, <1>2, <1>5, <2>1, SetErrorFields, DropStep DEF Sketch
<1>6. CASE WriteCall
  BY <1>4, <1>5, <1>6 DEF WriteCall
<1>7. CASE WriteAvailable
  <2>1. \A n \in 1 .. MaxChunk : n <= remaining - Len(upd.buf) => Fits(n)
    BY <1>2 DEF Fits, remaining, progress
  <2> QED BY <1>4, <1>7, <2>1 DEF WriteAvailable
<1> QED BY <1>6, <1>7

LEMMA WriteFillStep == ASSUME OtaInv, WriteFill, UNCHANGED <<cp, resets>> PROVE OtaInv'
<1>1. /\ pc = "write" /\ upd.size > 0 /\ UNCHANGED <<flash, rtc, running, cp, resets>>
  BY DEF WriteFill, OtaInv, UpdInv, Writing
<1>2. /\ Reserved /\ ~rtc.valid /\ upd \in UpdType /\ upd.size \in Nat /\ upd.start \in Nat
      /\ upd.cur \in Nat /\ upd.sent \in Nat /\ upd.bufSize \in Nat
      /\ upd.buf \in Seq(Cells) /\ upd.left \in Seq(Cells)
      /\ Len(upd.buf) \in Nat /\ Len(upd.left) \in Nat
  BY <1>1, RunningFacts DEF Sketch
<1>3. PICK n : n = IF Len(upd.left) > upd.bufSize - Len(upd.buf)
                   THEN upd.bufSize - Len(upd.buf) ELSE Len(upd.left)
  OBVIOUS
<1>4. PICK buf : buf = upd.buf \o SubSeq(upd.left, 1, n)
  OBVIOUS
<1>5. PICK left : left = SubSeq(upd.left, n + 1, Len(upd.left))
  OBVIOUS
<1>6. /\ upd' = [upd EXCEPT !.buf = buf, !.left = left]
      /\ pc' = IF n < Len(upd.left) \/ Len(buf) = remaining THEN "flush" ELSE "idle"
  BY <1>2, <1>3, <1>4, <1>5 DEF WriteFill, UpdType
<1>7. n \in Nat /\ n <= Len(upd.left) /\ n <= upd.bufSize - Len(upd.buf)
  BY <1>2, <1>3 DEF Reserved
<1>8. SubSeq(upd.left, 1, n) \in Seq(Cells) /\ Len(SubSeq(upd.left, 1, n)) = n
  BY <1>2, <1>7, SubSeqProperties
<1>9. buf \in Seq(Cells) /\ Len(buf) = Len(upd.buf) + n
  BY <1>2, <1>4, <1>8, ConcatProperties
<1>10. left \in Seq(Cells) /\ Len(left) = Len(upd.left) - n
  BY <1>2, <1>5, <1>7, SubSeqProperties
<1>11. upd' \in UpdType
  BY <1>2, <1>6, <1>9, <1>10 DEF UpdType
<1>12. /\ upd'.size = upd.size /\ upd'.start = upd.start /\ upd'.bufSize = upd.bufSize
       /\ upd'.cur = upd.cur /\ upd'.buf = buf /\ upd'.left = left /\ upd'.back = upd.back
       /\ upd'.sent = upd.sent
  BY <1>2, <1>6 DEF UpdType
<1>13. upd.back = "write"
  BY <1>1 DEF OtaInv, UpdInv
<1>14. pc' = "idle" => left = <<>>
  BY <1>6, <1>7, <1>10, <1>2
<1>15. UpdInv'
  <2>1. /\ Len(upd'.buf) <= upd.bufSize /\ upd.cur <= upd'.cur
        /\ upd'.cur - upd.start + Len(upd'.buf) + Len(upd'.left) = upd'.sent
        /\ upd'.sent <= upd.size
    <3>1. Len(upd'.buf) = Len(upd.buf) + n /\ Len(upd'.left) = Len(upd.left) - n
      BY <1>9, <1>10, <1>12
    <3>2. /\ upd.cur - upd.start + Len(upd.buf) + Len(upd.left) = upd.sent
          /\ upd.sent <= upd.size
      BY <1>2 DEF Reserved
    <3>3. PICK lb \in Nat, ll \in Nat : lb = Len(upd.buf) /\ ll = Len(upd.left)
      BY <1>2
    <3>4. /\ upd.size \in Nat /\ upd.start \in Nat /\ upd.cur \in Nat /\ upd.sent \in Nat
          /\ upd.bufSize \in Nat /\ upd'.cur = upd.cur /\ upd'.sent = upd.sent
      BY <1>2, <1>12
    <3>5. Len(upd'.buf) <= upd.bufSize
      BY <1>7, <3>1, <3>3, <3>4
    <3>6. upd'.cur - upd.start + Len(upd'.buf) + Len(upd'.left) = upd'.sent
      <4>1. Len(upd'.buf) = lb + n /\ Len(upd'.left) = ll - n
        BY <3>1, <3>3
      <4>2. (upd.cur - upd.start) + lb + ll = upd.sent
        BY <3>2, <3>3
      <4>3. (upd.cur - upd.start) + (lb + n) + (ll - n) = upd.sent
        BY <1>7, <3>4, <4>2
      <4> QED BY <3>4, <4>1, <4>3
    <3> QED BY <3>2, <3>4, <3>5, <3>6
  <2>2. pc' \in {"idle", "flush"} /\ upd'.back = "write"
    BY <1>6, <1>12, <1>13
  <2> QED BY <1>1, <1>11, <1>12, <1>14, <2>1, <2>2, GoOn DEF Sketch, Writing
<1> QED BY <1>1, <1>2, <1>6, <1>11, <1>15, QuietStep DEF Sketch

LEMMA StreamStep ==
    ASSUME OtaInv, StreamCall \/ StreamRead \/ StreamTimeout \/ StreamDone,
           UNCHANGED <<cp, resets>>
    PROVE  OtaInv'
<1>1. /\ pc \in {"idle", "stream"} /\ upd.size > 0
      /\ UNCHANGED <<flash, rtc, running, cp, resets>>
  BY DEF StreamCall, StreamRead, StreamTimeout, StreamDone, isRunning, OtaInv, UpdInv, Writing
<1>2. /\ Reserved /\ ~rtc.valid /\ upd \in UpdType /\ upd.size \in Nat /\ upd.start \in Nat
      /\ upd.cur \in Nat /\ upd.sent \in Nat /\ upd.bufSize \in Nat
      /\ upd.buf \in Seq(Cells) /\ Len(upd.buf) \in Nat /\ upd.size <= FlashEnd
  BY <1>1, RunningFacts DEF Sketch
<1>3. upd.left = <<>> /\ Len(upd.left) = 0
  <2>1. upd.left = <<>>
    BY <1>1 DEF OtaInv, UpdInv
  <2> QED BY <2>1
<1>4. CASE \E e \in {"magic", "stream"} : upd' = SetError(upd, e) /\ pc' = "idle"
  <2>1. PICK e \in Errors : upd' = SetError(upd, e) /\ pc' = "idle"
    BY <1>4 DEF Errors
  <2> QED BY <1>1, <1>2, <2>1, SetErrorFields, DropStep DEF Sketch
<1>5. CASE upd' = [upd EXCEPT !.back = "stream"] /\ pc' = "stream"
  <2>1. /\ upd' \in UpdType
        /\ upd'.size = upd.size /\ upd'.start = upd.start /\ upd'.bufSize = upd.bufSize
        /\ upd'.cur = upd.cur /\ upd'.buf = upd.buf /\ upd'.left = upd.left
        /\ upd'.back = "stream" /\ upd'.sent = upd.sent
    BY <1>2, <1>5 DEF UpdType
  <2>2. UpdInv'
    BY <1>1, <1>2, <1>3, <1>5, <2>1, GoOn DEF Reserved, Sketch, Writing
  <2> QED BY <1>1, <1>2, <1>5, <2>1, <2>2, QuietStep DEF Sketch
<1>6. CASE StreamRead
  <2>1. PICK n \in 1 .. MaxChunk :
          /\ n <= upd.bufSize - Len(upd.buf) /\ upd.sent + n <= upd.size
          /\ \E d \in Data(n) :
                LET buf == upd.buf \o d
                IN /\ upd' = [upd EXCEPT !.buf = buf, !.sent = @ + n]
                   /\ pc' = IF Len(buf) \in {remaining, upd.bufSize} THEN "flush" ELSE pc
    BY <1>6 DEF StreamRead
  <2>2. n \in Nat /\ upd.sent + n <= FlashEnd
    BY <1>2, <2>1, UpdaterAssumption, Geometry, SMTT(30)
  <2>3. PICK d, buf :
                /\ d \in Data(n)
                /\ buf = upd.buf \o d
                /\ upd' = [upd EXCEPT !.buf = buf, !.sent = upd.sent + n]
                /\ pc' \in {"flush", pc}
    BY <1>2, <2>1 DEF UpdType
  <2>4. d \in Seq(Cells) /\ Len(d) = n
    BY <1>2, <2>2, <2>3, DataType
  <2>5. buf \in Seq(Cells) /\ Len(buf) = Len(upd.buf) + n
    BY <1>2, <2>3, <2>4, ConcatProperties
  <2>6. pc = "stream" /\ upd.back = "stream"
    BY <1>6 DEF StreamRead, OtaInv, UpdInv
  <2>7. upd.sent + n \in Nat
    BY <1>2, <2>2
  <2>8. upd' = [size |-> upd.size, start |-> upd.start, cur |-> upd.cur,
                bufSize |-> upd.bufSize, buf |-> buf, left |-> upd.left, back |-> upd.back,
                even |-> upd.even, error |-> upd.error, target |-> upd.target,
                md5 |-> upd.md5, src |-> upd.src, sent |-> upd.sent + n, ret |-> upd.ret]
    BY <1>2, <2>3 DEF UpdType
  <2>9. upd' \in UpdType
    BY <1>2, <2>5, <2>7, <2>8 DEF UpdType
  <2>10. /\ upd'.size = upd.size /\ upd'.start = upd.start /\ upd'.bufSize = upd.bufSize
         /\ upd'.cur = upd.cur /\ upd'.buf = buf /\ upd'.left = upd.left
         /\ upd'.back = upd.back /\ upd'.sent = upd.sent + n
    BY <2>8
  <2>11. /\ Len(upd'.buf) <= upd.bufSize
         /\ upd'.cur - upd.start + Len(upd'.buf) + Len(upd'.left) = upd'.sent
    <3>1. upd.cur - upd.start + Len(upd.buf) = upd.sent
      BY <1>2, <1>3 DEF Reserved
    <3>2. (upd.cur - upd.start) + (Len(upd.buf) + n) + 0 = upd.sent + n
      BY <1>2, <2>2, <3>1
    <3>3. Len(upd'.buf) = Len(upd.buf) + n /\ Len(upd'.left) = 0
      BY <1>3, <2>5, <2>10
    <3>4. Len(upd.buf) + n <= upd.bufSize
      BY <1>2, <2>1, <2>2
    <3> QED BY <2>10, <3>2, <3>3, <3>4
  <2>12. UpdInv'
    BY <1>1, <1>2, <1>3, <2>1, <2>3, <2>6, <2>9, <2>10, <2>11, GoOn DEF Sketch, Writing
  <2> QED BY <1>1, <1>2, <2>3, <2>6, <2>9, <2>12, QuietStep DEF Sketch
<1>7. CASE StreamCall
  BY <1>4, <1>5, <1>7 DEF StreamCall
<1>8. CASE StreamTimeout
  BY <1>4, <1>8 DEF StreamTimeout
<1>9. CASE StreamDone
  <2>1. pc = "stream" /\ pc' = "idle" /\ upd' = upd
    BY <1>9 DEF StreamDone
  <2>2. UpdInv'
    BY <1>1, <1>2, <1>3, <2>1, GoOn DEF Reserved, Sketch, Writing
  <2> QED BY <1>1, <1>2, <2>1, <2>2, QuietStep DEF Sketch
<1> QED BY <1>6, <1>7, <1>8, <1>9

LEMMA EndCallStep == ASSUME OtaInv, EndCall, UNCHANGED <<cp, resets>> PROVE OtaInv'
<1>1. pc = "idle" /\ pc \in Sketch /\ UNCHANGED <<flash, rtc, running, cp, resets>>
  BY DEF EndCall, Sketch
<1>2. upd \in UpdType
  BY DEF OtaInv, OtaTypeOK
<1>3. CASE upd' = Return(Reset(upd), "false") /\ pc' = pc
  <2>1. PICK r \in UpdType : /\ r = Reset(upd) /\ r.size = 0 /\ r.start = 0 /\ r.cur = 0
                             /\ r.buf = <<>> /\ r.left = <<>>
    BY <1>2, ResetFields
  <2>2. upd' = Return(r, "false")
    BY <1>3, <2>1
  <2>3. /\ upd' \in UpdType /\ upd'.size = 0 /\ upd'.start = 0 /\ upd'.cur = 0
        /\ upd'.buf = <<>> /\ upd'.left = <<>>
    BY <2>1, <2>2, ReturnFields
  <2> QED BY <1>1, <1>3, <2>3, DropStep
<1>4. CASE upd' = Return(SetError(upd, "no data"), "false") /\ pc' = pc
  <2>1. "no data" \in Errors
    BY DEF Errors
  <2>2. PICK r \in UpdType : /\ r = SetError(upd, "no data") /\ r.size = 0 /\ r.start = 0
                             /\ r.cur = 0 /\ r.buf = <<>> /\ r.left = <<>>
    BY <1>2, <2>1, SetErrorFields
  <2>3. upd' = Return(r, "false")
    BY <1>4, <2>2
  <2>4. /\ upd' \in UpdType /\ upd'.size = 0 /\ upd'.start = 0 /\ upd'.cur = 0
        /\ upd'.buf = <<>> /\ upd'.left = <<>>
    BY <2>2, <2>3, ReturnFields
  <2> QED BY <1>1, <1>4, <2>4, DropStep
<1>5. ASSUME NEW even \in BOOLEAN, isRunning, MayEnd(even),
             upd' = [upd EXCEPT !.even = even, !.back = "verify"],
             pc' = IF even /\ upd.buf # <<>> THEN "flush" ELSE "verify"
      PROVE  OtaInv'
  <2>1. /\ upd.size > 0 /\ Reserved /\ ~rtc.valid /\ upd.size \in Nat /\ upd.start \in Nat
        /\ upd.cur \in Nat
    BY <1>1, <1>5, RunningFacts DEF isRunning, Sketch
  <2>2. upd.left = <<>>
    BY <1>1 DEF OtaInv, UpdInv
  <2>3. /\ upd' \in UpdType
        /\ upd'.size = upd.size /\ upd'.start = upd.start /\ upd'.bufSize = upd.bufSize
        /\ upd'.cur = upd.cur /\ upd'.buf = upd.buf /\ upd'.left = upd.left
        /\ upd'.back = "verify" /\ upd'.sent = upd.sent /\ upd'.even = even
    BY <1>2, <1>5 DEF UpdType
  <2>4. pc' \in {"flush", "verify"} /\ (pc' = "flush" => even)
    BY <1>5
  <2>5. pc' = "verify" /\ ~upd'.even => upd'.cur = upd.start + upd.size
    BY <1>5, <2>3 DEF MayEnd
  <2>6. UpdInv'
    BY <1>1, <2>1, <2>2, <2>3, <2>4, <2>5, GoOn DEF Reserved, Writing
  <2> QED BY <1>1, <2>1, <2>3, <2>4, <2>6, QuietStep DEF Sketch
<1> QED BY <1>3, <1>4, <1>5 DEF EndCall

-----------------------------------------------------------------------------
(* _writeBuffer(): what it erases and programs lies above the sketch. *)

LEMMA FlashStep ==
    ASSUME OtaInv, pc \in Writing, pc' \in Writing \cup {"idle", "verify"}, upd.size > 0,
           UNCHANGED <<rtc, running, cp, resets>>,
           flash' \in [0 .. FlashEnd - 1 -> Cells],
           \A a \in 0 .. FlashEnd - 1 : a < upd.cur => flash'[a] = flash[a],
           upd' \in UpdType, UpdInv'
    PROVE  OtaInv'
<1> USE DEF OtaInv, Writing, Sketch, Boot
<1>1. Reserved /\ ~rtc.valid /\ upd.start \in Nat /\ upd.cur \in Nat /\ running \in Images
  BY RunningFacts DEF OtaTypeOK
<1>2. OtaTypeOK'
  BY DEF OtaTypeOK
<1>3. CommandInv'
  BY <1>1 DEF CommandInv
<1>4. CopyInv'
  BY <1>1 DEF CopyInv
<1>5. SketchWhole'
  <2>1. BinSize(running) \in Nat /\ BinSize(running) <= upd.cur
    <3>1. BinSize(running) \in Nat
      BY <1>1, Geometry
    <3>2. RoundUp(BinSize(running)) \in Nat /\ BinSize(running) <= RoundUp(BinSize(running))
      BY <3>1, RoundUpFacts
    <3> QED BY <1>1, <3>1, <3>2 DEF Reserved
  <2>2. Holds(flash, 0, running) /\ DOMAIN flash = 0 .. FlashEnd - 1
    BY DEF SketchWhole, OtaTypeOK
  <2>3. Holds(flash', 0, running)
    BY <1>1, <2>1, <2>2 DEF Holds
  <2> QED BY <2>3 DEF SketchWhole
<1> QED BY <1>2, <1>3, <1>4, <1>5

LEMMA ProgrammedType ==
    ASSUME upd \in UpdType
    PROVE  /\ Programmed \in Seq(Cells) /\ Len(Programmed) = Len(upd.buf)
           /\ \A i \in 1 .. Len(upd.buf) : /\ Programmed[i] \in Cells
                                           /\ Programmed[i].img = upd.buf[i].img
                                           /\ Programmed[i].pos = upd.buf[i].pos
<1>1. upd.buf \in Seq(Cells) /\ DOMAIN upd.buf = 1 .. Len(upd.buf) /\ Len(upd.buf) \in Nat
  BY DEF UpdType
<1>2. ASSUME NEW i \in 1 .. Len(upd.buf)
      PROVE  /\ Programmed[i] \in Cells
             /\ Programmed[i].img = upd.buf[i].img /\ Programmed[i].pos = upd.buf[i].pos
  <2>1. PICK c \in Cells : c = upd.buf[i]
    BY <1>1
  <2>2. PICK p \in BOOLEAN : p = (/\ upd.cur = upd.start /\ i = 1 /\ c.img \in ForeignMode)
    OBVIOUS
  <2>3. Programmed[i] = [c EXCEPT !.patched = c.patched \/ p]
    BY <1>1, <2>1, <2>2 DEF Programmed
  <2>4. CASE c \in [img : Images, pos : 0 .. FlashEnd, patched : BOOLEAN]
    <3>1. (c.patched \/ p) \in BOOLEAN
      OBVIOUS
    <3>2. [c EXCEPT !.patched = c.patched \/ p]
             = [img |-> c.img, pos |-> c.pos, patched |-> (c.patched \/ p)]
      BY <2>4
    <3> QED BY <2>1, <2>3, <2>4, <3>1, <3>2 DEF Cells
  <2>5. CASE c \in {Erased, Garbage}
    <3>1. ~p /\ c.patched = FALSE
      BY <2>2, <2>5, GeometryAssumption DEF Erased, Garbage
    <3>2. c = [img |-> c.img, pos |-> c.pos, patched |-> FALSE]
      BY <2>5 DEF Erased, Garbage
    <3>3. [c EXCEPT !.patched = c.patched \/ p] = c
      BY <3>1, <3>2
    <3> QED BY <2>1, <2>3, <3>3
  <2> QED BY <2>4, <2>5 DEF Cells
<1>3. Programmed \in [1 .. Len(upd.buf) -> Cells]
  <2>1. Programmed = [i \in 1 .. Len(upd.buf) |-> Programmed[i]]
    BY <1>1 DEF Programmed
  <2> QED BY <1>2, <2>1
<1>4. Programmed \in Seq(Cells) /\ Len(Programmed) = Len(upd.buf)
  BY <1>1, <1>3
<1> QED BY <1>2, <1>4

LEMMA FlashTypes ==
    ASSUME flash \in [0 .. FlashEnd - 1 -> Cells], NEW a \in Nat
    PROVE  /\ EraseSector(flash, a) \in [0 .. FlashEnd - 1 -> Cells]
           /\ \A d \in Seq(Cells) : FlashWrite(flash, a, d) \in [0 .. FlashEnd - 1 -> Cells]
<1>1. Erased \in Cells /\ Garbage \in Cells
  BY DEF Cells
<1>2. EraseSector(flash, a) \in [0 .. FlashEnd - 1 -> Cells]
  BY <1>1 DEF EraseSector
<1>3. ASSUME NEW d \in Seq(Cells)
      PROVE  FlashWrite(flash, a, d) \in [0 .. FlashEnd - 1 -> Cells]
  <2>1. ASSUME NEW b \in 0 .. FlashEnd - 1, b \in a .. a + Len(d) - 1
        PROVE  d[b - a + 1] \in Cells
    <3>1. Len(d) \in Nat /\ b \in Nat
      BY Geometry
    <3>2. b - a + 1 \in 1 .. Len(d)
      BY <2>1, <3>1
    <3> QED BY <3>2
  <2> QED BY <1>1, <2>1, Geometry DEF FlashWrite
<1> QED BY <1>2, <1>3

LEMMA FlushStep ==
    ASSUME OtaInv, FlushErase \/ FlushProgram, UNCHANGED <<cp, resets>>
    PROVE  OtaInv'
<1>1. /\ pc \in {"flush", "program"} /\ pc \in Sketch /\ upd.size > 0
      /\ UNCHANGED <<rtc, running, cp, resets>> /\ pc \in Writing
  BY DEF FlushErase, FlushProgram, OtaInv, UpdInv, Writing, Sketch
<1>2. /\ Reserved /\ ~rtc.valid /\ upd \in UpdType /\ upd.size \in Nat /\ upd.start \in Nat
      /\ upd.cur \in Nat /\ upd.sent \in Nat /\ upd.bufSize \in Nat
      /\ upd.buf \in Seq(Cells) /\ upd.left \in Seq(Cells)
      /\ Len(upd.buf) \in Nat /\ Len(upd.left) \in Nat
      /\ flash \in [0 .. FlashEnd - 1 -> Cells]
  BY <1>1, RunningFacts DEF OtaInv, OtaTypeOK
<1>3. upd.back \in {"write", "stream", "verify"}
  BY <1>1, <1>2 DEF OtaInv, UpdInv, UpdType
<1>4. upd.left # <<>> => upd.back = "write"
  BY DEF OtaInv, UpdInv
<1>5. CASE \E e \in {"erase", "write"} : /\ upd' = SetError(upd, e)
                                         /\ pc' = AfterFailure(upd.back) /\ UNCHANGED flash
  <2>1. PICK e \in Errors : /\ upd' = SetError(upd, e)
                            /\ pc' = AfterFailure(upd.back) /\ UNCHANGED flash
    BY <1>5 DEF Errors
  <2>2. pc' \in {"idle", "verify"}
    BY <2>1 DEF AfterFailure
  <2> QED BY <1>1, <1>2, <2>1, <2>2, SetErrorFields, DropStep
<1>6. CASE /\ pc' = "program" /\ UNCHANGED upd
           /\ UNCHANGED flash \/ (NeedsErase(upd.cur) /\ flash' = EraseSector(flash, upd.cur))
  <2>1. UpdInv'
    <3>1. upd.back = "verify" => upd.even
      BY <1>1 DEF OtaInv, UpdInv
    <3> QED BY <1>1, <1>2, <1>3, <1>4, <1>6, <3>1, GoOn DEF Reserved, Writing
  <2>2. CASE UNCHANGED flash
    BY <1>1, <1>2, <1>6, <2>1, <2>2, FlashStep DEF Writing
  <2>3. CASE NeedsErase(upd.cur) /\ flash' = EraseSector(flash, upd.cur)
    <3>1. flash' \in [0 .. FlashEnd - 1 -> Cells]
      BY <1>2, <2>3, FlashTypes
    <3>2. \A a \in 0 .. FlashEnd - 1 : a < upd.cur => flash'[a] = flash[a]
      <4>1. \A b \in Sector(upd.cur) : upd.cur <= b
        BY <1>2, <2>3, SectorFacts DEF NeedsErase
      <4>2. \A a \in 0 .. FlashEnd - 1 : a < upd.cur => a \notin Sector(upd.cur)
        BY <1>2, <4>1, Geometry
      <4> QED BY <1>2, <2>3, <4>2 DEF EraseSector
    <3> QED BY <1>1, <1>2, <1>6, <2>1, <3>1, <3>2, FlashStep DEF Writing
  <2> QED BY <1>6, <2>2, <2>3
<1>7. CASE /\ flash' = FlashWrite(flash, upd.cur, Programmed)
           /\ upd' = [upd EXCEPT !.md5 = Md5After, !.cur = @ + Len(upd.buf), !.buf = <<>>]
           /\ pc' = AfterSuccess
  <2>1. flash' \in [0 .. FlashEnd - 1 -> Cells]
    BY <1>2, <1>7, ProgrammedType, FlashTypes
  <2>2. \A a \in 0 .. FlashEnd - 1 : a < upd.cur => flash'[a] = flash[a]
    <3>1. Len(Programmed) \in Nat
      BY <1>2, ProgrammedType
    <3>2. \A a \in 0 .. FlashEnd - 1 :
             a < upd.cur => a \notin upd.cur .. upd.cur + Len(Programmed) - 1
      BY <1>2, <3>1, Geometry
    <3> QED BY <1>2, <1>7, <3>2 DEF FlashWrite
  <2>3. PICK md5 \in Seq(Cells) : md5 = Md5After
    <3>1. upd.md5 \in Seq(Cells)
      BY <1>2 DEF UpdType
    <3> QED BY <1>2, <3>1, ConcatProperties DEF Md5After
  <2>4. <<>> \in Seq(Cells) /\ Len(<<>>) = 0 /\ upd.cur + Len(upd.buf) \in Nat
    BY <1>2
  <2>5. upd' = [size |-> upd.size, start |-> upd.start, cur |-> upd.cur + Len(upd.buf),
                bufSize |-> upd.bufSize, buf |-> <<>>, left |-> upd.left, back |-> upd.back,
                even |-> upd.even, error |-> upd.error, target |-> upd.target,
                md5 |-> md5, src |-> upd.src, sent |-> upd.sent, ret |-> upd.ret]
    BY <1>2, <1>7, <2>3 DEF UpdType
  <2>6. upd' \in UpdType
    BY <1>2, <2>3, <2>4, <2>5 DEF UpdType
  <2>7. /\ upd'.size = upd.size /\ upd'.start = upd.start /\ upd'.bufSize = upd.bufSize
        /\ upd'.cur = upd.cur + Len(upd.buf) /\ upd'.buf = <<>> /\ upd'.left = upd.left
        /\ upd'.back = upd.back /\ upd'.sent = upd.sent /\ upd'.even = upd.even
    BY <2>5
  <2>8. /\ Len(upd'.buf) <= upd.bufSize /\ upd.cur <= upd'.cur
        /\ upd'.cur - upd.start + Len(upd'.buf) + Len(upd'.left) = upd'.sent
    <3>1. upd.cur - upd.start + Len(upd.buf) + Len(upd.left) = upd.sent
      BY <1>2 DEF Reserved
    <3>2. (upd.cur + Len(upd.buf)) - upd.start + 0 + Len(upd.left) = upd.sent
      BY <1>2, <3>1
    <3>3. Len(upd'.buf) = 0
      BY <2>4, <2>7
    <3> QED BY <1>2, <2>7, <3>2, <3>3
  <2>9. pc' = IF upd.back # "write" THEN upd.back ELSE IF upd.left = <<>> THEN "idle" ELSE "write"
    BY <1>7 DEF AfterSuccess
  <2>10. pc' = "verify" /\ ~upd'.even => upd'.cur = upd.start + upd.size
    <3>1. pc' = "verify" => upd.even
      BY <1>1, <1>3, <2>9 DEF OtaInv, UpdInv
    <3> QED BY <2>7, <3>1
  <2>11. UpdInv'
    BY <1>1, <1>2, <1>3, <1>4, <2>6, <2>7, <2>8, <2>9, <2>10, GoOn DEF Reserved, Writing
  <2> QED BY <1>1, <1>2, <1>3, <2>1, <2>2, <2>6, <2>9, <2>11, FlashStep DEF Writing
<1> QED BY <1>5, <1>6, <1>7 DEF FlushErase, FlushProgram

-----------------------------------------------------------------------------
(* end() *)

\* How many cells end() takes the image to have.
EndSize == IF upd.even THEN progress ELSE upd.size

LEMMA VerifyFacts ==
    ASSUME OtaInv, pc = "verify"
    PROVE  /\ upd \in UpdType /\ upd.start \in Nat /\ upd.cur \in Nat /\ upd.size \in Nat
           /\ flash \in [0 .. FlashEnd - 1 -> Cells] /\ ~rtc.valid /\ upd.left = <<>>
           /\ EndSize \in Nat /\ EndSize = upd.cur - upd.start /\ EndSize <= upd.size
           /\ upd.start <= upd.cur /\ Len(upd.buf) <= upd.bufSize
           /\ upd.start + RoundUp(upd.size) <= FlashEnd
<1>1. /\ upd \in UpdType /\ upd.start \in Nat /\ upd.cur \in Nat /\ upd.size \in Nat
      /\ upd.bufSize \in Nat /\ upd.even \in BOOLEAN /\ upd.sent \in Nat
      /\ upd.buf \in Seq(Cells) /\ Len(upd.buf) \in Nat
      /\ flash \in [0 .. FlashEnd - 1 -> Cells]
  BY DEF OtaInv, OtaTypeOK, UpdType
<1>2. ~rtc.valid /\ upd.left = <<>>
  BY DEF OtaInv, CommandInv, Sketch, UpdInv
<1>3. Len(upd.left) = 0
  BY <1>2
<1>4. ~upd.even => upd.cur = upd.start + upd.size
  BY DEF OtaInv, UpdInv
<1>5. CASE upd.size > 0
  <2>1. Reserved
    BY <1>5 DEF OtaInv, UpdInv
  <2>2. upd.cur - upd.start <= upd.size /\ upd.start <= upd.cur
    BY <1>1, <1>3, <2>1 DEF Reserved
  <2> QED BY <1>1, <1>2, <1>4, <2>1, <2>2 DEF Reserved, EndSize, progress
<1>6. CASE upd.size = 0
  <2>1. upd.start = 0 /\ upd.cur = 0 /\ upd.buf = <<>>
    BY <1>6 DEF OtaInv, UpdInv
  <2>2. RoundUp(0) = 0 /\ Len(upd.buf) = 0
    BY <2>1, Geometry DEF RoundUp
  <2> QED BY <1>1, <1>2, <1>6, <2>1, <2>2, Geometry DEF EndSize, progress
<1> QED BY <1>1, <1>5, <1>6

LEMMA EndVerifyStep == ASSUME OtaInv, EndVerify, UNCHANGED <<cp, resets>> PROVE OtaInv'
<1>1. /\ pc = "verify" /\ pc \in Sketch /\ UNCHANGED <<flash, running, cp, resets>>
  BY DEF EndVerify, Sketch
<1>2. /\ upd \in UpdType /\ upd.start \in Nat /\ upd.cur \in Nat /\ upd.size \in Nat
      /\ flash \in [0 .. FlashEnd - 1 -> Cells] /\ ~rtc.valid /\ upd.left = <<>>
      /\ EndSize \in Nat /\ EndSize = upd.cur - upd.start /\ EndSize <= upd.size
      /\ upd.start <= upd.cur /\ Len(upd.buf) <= upd.bufSize
      /\ upd.start + RoundUp(upd.size) <= FlashEnd
  BY <1>1, VerifyFacts
<1>3. CASE \E e \in {"sign", "md5", "magic"} : /\ upd' = Return(SetError(upd, e), "false")
                                              /\ pc' = "idle" /\ UNCHANGED rtc
  <2>1. PICK e \in Errors : /\ upd' = Return(SetError(upd, e), "false")
                            /\ pc' = "idle" /\ UNCHANGED rtc
    BY <1>3 DEF Errors
  <2>2. PICK r \in UpdType : /\ r = SetError(upd, e) /\ r.size = 0 /\ r.start = 0
                             /\ r.cur = 0 /\ r.buf = <<>> /\ r.left = <<>>
    BY <1>2, SetErrorFields
  <2>3. upd' = Return(r, "false")
    BY <2>1, <2>2
  <2>4. /\ upd' \in UpdType /\ upd'.size = 0 /\ upd'.start = 0 /\ upd'.cur = 0
        /\ upd'.buf = <<>> /\ upd'.left = <<>>
    BY <2>2, <2>3, ReturnFields
  <2> QED BY <1>1, <2>1, <2>4, DropStep
<1>4. CASE /\ Checked(EndSize) /\ Magic(flash[upd.start])
           /\ upd' = [upd EXCEPT !.size = EndSize]
           /\ rtc' = Command(EndSize)
           /\ pc' = "command"
  <2>1. PICK n \in Nat : n = EndSize /\ n <= upd.size
    BY <1>2
  <2>2. upd' = [upd EXCEPT !.size = n] /\ rtc' = Command(n)
    BY <1>4, <2>1
  <2>3. Signed => n >= 2
    BY <1>4, <2>1, Geometry DEF Checked, SignatureOk
  <2>4. PICK k \in Nat : k = (IF Signed THEN n - 1 ELSE n) /\ k <= upd.size
    BY <1>2, <2>1, <2>3
  <2>5. PICK img \in Images \cup {"unchecked"} :
           img = IF Signed THEN flash[upd.start].img
                 ELSE IF upd.target = "none" THEN "unchecked" ELSE upd.target
    BY <1>2, <1>4 DEF Magic, UpdType
  <2>6. rtc' = [valid |-> FALSE, src |-> upd.start, size |-> k, img |-> img]
    BY <2>2, <2>4, <2>5 DEF Command
  <2>7. rtc' \in RtcType
    BY <1>2, <2>6 DEF RtcType
  <2>8. /\ upd' \in UpdType /\ upd'.start = upd.start /\ upd'.cur = upd.cur
        /\ upd'.buf = upd.buf /\ upd'.left = upd.left /\ upd'.bufSize = upd.bufSize
        /\ upd'.size = n
    BY <1>2, <2>2 DEF UpdType
  <2>9. OtaTypeOK'
    BY <1>1, <1>4, <2>7, <2>8 DEF OtaInv, OtaTypeOK, Sketch
  <2>10. UpdInv'
    <3>1. RoundUp(upd.size) \in Nat /\ upd.size <= RoundUp(upd.size)
      BY <1>2, RoundUpFacts
    <3>2. n <= FlashEnd
      BY <1>2, <2>1, <3>1, Geometry
    <3> QED BY <1>2, <1>4, <2>1, <2>8, <3>2 DEF UpdInv, Writing, Boot
  <2>11. CommandInv'
    <3>1. RoundUp(k) \in Nat /\ RoundUp(upd.size) \in Nat /\ RoundUp(k) <= RoundUp(upd.size)
      BY <1>2, <2>4, RoundUpFacts, RoundUpMono
    <3>2. rtc'.src + RoundUp(rtc'.size) <= FlashEnd
      BY <1>2, <2>6, <3>1, Geometry
    <3>3. rtc'.valid = FALSE
      BY <2>6
    <3> QED BY <3>2, <3>3 DEF CommandInv
  <2>12. CopyInv'
    BY <1>1, <1>4 DEF OtaInv, CopyInv
  <2>13. SketchWhole'
    BY <1>1 DEF OtaInv, SketchWhole, Holds
  <2> QED BY <2>9, <2>10, <2>11, <2>12, <2>13 DEF OtaInv
<1> QED BY <1>3, <1>4 DEF EndVerify, EndSize

LEMMA StageStep ==
    ASSUME OtaInv, EndStage \/ Restart \/ Unstage, UNCHANGED <<cp, resets>>
    PROVE  OtaInv'
<1> USE DEF OtaInv
<1>1. /\ rtc \in RtcType /\ upd \in UpdType /\ UNCHANGED <<flash, running, cp, resets>>
      /\ pc \in Sketch
  BY DEF EndStage, Restart, Unstage, Sketch, OtaTypeOK
<1>2. SketchWhole'
  BY <1>1 DEF SketchWhole, Holds
<1>3. CASE EndStage
  <2>1. /\ pc = "command" /\ pc' = "idle" /\ rtc' = [rtc EXCEPT !.valid = TRUE]
        /\ upd' = Return(Reset(upd), "true")
    BY <1>3 DEF EndStage
  <2>2. rtc' \in RtcType /\ rtc'.src = rtc.src /\ rtc'.size = rtc.size
    BY <1>1, <2>1 DEF RtcType
  <2>3. PICK r \in UpdType : /\ r = Reset(upd) /\ r.size = 0 /\ r.start = 0 /\ r.cur = 0
                             /\ r.buf = <<>> /\ r.left = <<>>
    BY <1>1, ResetFields
  <2>4. upd' = Return(r, "true")
    BY <2>1, <2>3
  <2>5. /\ upd' \in UpdType /\ upd'.size = 0 /\ upd'.start = 0 /\ upd'.cur = 0
        /\ upd'.buf = <<>> /\ upd'.left = <<>>
    BY <2>3, <2>4, ReturnFields
  <2>6. UpdInv'
    BY <2>1, <2>5, DroppedInv
  <2>7. OtaTypeOK'
    BY <1>1, <2>1, <2>2, <2>5 DEF OtaTypeOK, Sketch
  <2>8. CommandInv'
    BY <2>1, <2>2, <2>5 DEF CommandInv
  <2>9. CopyInv'
    BY <1>1, <2>1 DEF CopyInv
  <2> QED BY <1>2, <2>6, <2>7, <2>8, <2>9
<1>4. CASE Restart
  <2>1. pc = "idle" /\ pc' = "boot" /\ upd' = NoUpdate /\ UNCHANGED rtc
    BY <1>4 DEF Restart
  <2>2. UpdInv'
    BY <2>1 DEF UpdInv, NoUpdate, Writing
  <2>3. OtaTypeOK'
    BY <1>1, <2>1, NoUpdateType DEF OtaTypeOK, Boot
  <2>4. CommandInv'
    BY <2>1 DEF CommandInv, Sketch
  <2>5. CopyInv'
    BY <1>1, <2>1 DEF CopyInv
  <2> QED BY <1>2, <2>2, <2>3, <2>4, <2>5
<1>5. CASE Unstage
  <2>1. UNCHANGED <<pc, upd>> /\ pc = "idle" /\ rtc' = [rtc EXCEPT !.valid = FALSE]
    BY <1>5 DEF Unstage
  <2>2. rtc' \in RtcType /\ rtc'.src = rtc.src /\ rtc'.size = rtc.size /\ ~rtc'.valid
    BY <1>1, <2>1 DEF RtcType
  <2>3. UpdInv'
    BY <1>1, <2>1 DEF UpdInv, Reserved
  <2>4. OtaTypeOK'
    BY <1>1, <2>1, <2>2 DEF OtaTypeOK
  <2>5. CommandInv'
    BY <2>1, <2>2 DEF CommandInv
  <2>6. CopyInv'
    BY <1>1, <2>1 DEF CopyInv
  <2> QED BY <1>2, <2>3, <2>4, <2>5, <2>6
<1> QED BY <1>3, <1>4, <1>5

-----------------------------------------------------------------------------
(* Resets and the bootloader *)

LEMMA NoCopyType ==
    NoCopy \in CpType /\ NoCopy.saddr = 0 /\ NoCopy.left = 0 /\ NoCopy.daddr = 0
    /\ NoCopy.res = 0
  BY DEF NoCopy, CpType

LEMMA ResetStep == ASSUME OtaInv, ChipReset \/ PowerCut PROVE OtaInv'
<1> USE DEF OtaInv
<1>1. /\ pc' = "boot" /\ upd' = NoUpdate /\ cp' = NoCopy /\ UNCHANGED <<flash, running>>
      /\ resets' = resets + 1 /\ resets < MaxResets
      /\ rtc' = rtc \/ rtc' = [rtc EXCEPT !.valid = FALSE]
  BY DEF ChipReset, PowerCut
<1>2. rtc \in RtcType /\ resets \in 0 .. MaxResets /\ running \in Images \cup {"torn"}
  BY DEF OtaTypeOK
<1>3. rtc' \in RtcType /\ rtc'.src = rtc.src /\ rtc'.size = rtc.size
  BY <1>1, <1>2 DEF RtcType
<1>4. running \in Images
  BY <1>2, OtaAssumption DEF OtaTypeOK, ChipReset, PowerCut
<1>5. OtaTypeOK'
  <2>1. resets' \in 0 .. MaxResets
    BY <1>1, <1>2, OtaAssumption
  <2> QED BY <1>1, <1>2, <1>3, <1>4, <2>1, NoUpdateType, NoCopyType DEF OtaTypeOK, Boot
<1>6. UpdInv'
  BY <1>1 DEF UpdInv, NoUpdate, Writing
<1>7. CommandInv'
  BY <1>1, <1>3 DEF CommandInv, Sketch
<1>8. CopyInv'
  BY <1>1, NoCopyType, Geometry DEF CopyInv
<1>9. SketchWhole'
  BY <1>1 DEF SketchWhole, Sketch
<1> QED BY <1>5, <1>6, <1>7, <1>8, <1>9

\* While it copies: the sector that is read lies in the sketch area, and so
\* does the one that is written, below it unless the source is at 0.
LEMMA CopyFacts ==
    ASSUME OtaInv, pc \in {"copy", "erase", "burn"}
    PROVE  /\ cp \in CpType /\ cp.saddr \in Nat /\ cp.daddr \in Nat /\ cp.left \in Nat
           /\ rtc \in RtcType /\ rtc.valid /\ rtc.src \in Nat /\ rtc.size \in Nat /\ cp.res = 0
           /\ flash \in [0 .. FlashEnd - 1 -> Cells] /\ upd = NoUpdate
           /\ cp.saddr = rtc.src + cp.daddr /\ cp.daddr + cp.left = RoundUp(rtc.size)
           /\ cp.daddr % SectorSize = 0 /\ rtc.src % SectorSize = 0
           /\ cp.saddr + cp.left <= FlashEnd
           /\ cp.left > 0 => SectorSize <= cp.left
           /\ (cp.daddr + SectorSize) % SectorSize = 0
<1>1. /\ cp \in CpType /\ cp.saddr \in Nat /\ cp.daddr \in Nat /\ cp.left \in Nat
      /\ rtc \in RtcType /\ rtc.src \in Nat /\ rtc.size \in Nat
      /\ flash \in [0 .. FlashEnd - 1 -> Cells] /\ upd = NoUpdate
  BY DEF OtaInv, OtaTypeOK, CpType, RtcType, UpdInv, Boot
<1>2. /\ cp.saddr = rtc.src + cp.daddr /\ cp.daddr + cp.left = RoundUp(rtc.size)
      /\ cp.daddr % SectorSize = 0 /\ rtc.src % SectorSize = 0 /\ rtc.valid /\ cp.res = 0
      /\ cp.saddr + cp.left <= FlashEnd
  BY DEF OtaInv, CopyInv
<1>3. RoundUp(rtc.size) \in Nat /\ RoundUp(rtc.size) % SectorSize = 0
  BY <1>1, RoundUpFacts
<1>4. cp.left > 0 => SectorSize <= cp.left
  <2>1. cp.daddr < RoundUp(rtc.size) => cp.daddr + SectorSize <= RoundUp(rtc.size)
    BY <1>1, <1>2, <1>3, Aligned
  <2> QED BY <1>1, <1>2, <1>3, <2>1, Geometry
<1>5. (cp.daddr + SectorSize) % SectorSize = 0
  <2>1. SectorSize % SectorSize = 0
    BY Geometry
  <2> QED BY <1>1, <1>2, <2>1, Geometry, Aligned
<1> QED BY <1>1, <1>2, <1>4, <1>5

LEMMA AdvanceFields ==
    ASSUME cp \in CpType, SectorSize <= cp.left
    PROVE  /\ Advance(cp) \in CpType
           /\ Advance(cp).saddr = cp.saddr + SectorSize
           /\ Advance(cp).daddr = cp.daddr + SectorSize
           /\ Advance(cp).left = cp.left - SectorSize
           /\ Advance(cp).buf = cp.buf /\ Advance(cp).res = cp.res
           /\ Advance(cp).daddr + Advance(cp).left = cp.daddr + cp.left
           /\ Advance(cp).saddr + Advance(cp).left = cp.saddr + cp.left
           /\ Advance(cp).saddr - Advance(cp).daddr = cp.saddr - cp.daddr
<1>1. cp.saddr \in Nat /\ cp.daddr \in Nat /\ cp.left \in Nat
  BY DEF CpType
<1>2. /\ cp.saddr + SectorSize \in Nat /\ cp.daddr + SectorSize \in Nat
      /\ cp.left - SectorSize \in Nat
  BY <1>1, Geometry
<1>3. PICK c : c = Advance(cp)
  OBVIOUS
<1>4. c = [saddr |-> cp.saddr + SectorSize, daddr |-> cp.daddr + SectorSize,
           left |-> cp.left - SectorSize, buf |-> cp.buf, res |-> cp.res]
  BY <1>3 DEF Advance, CpType
<1>5. c \in CpType
  BY <1>2, <1>4 DEF CpType
<1>6. /\ c.saddr = cp.saddr + SectorSize /\ c.daddr = cp.daddr + SectorSize
      /\ c.left = cp.left - SectorSize /\ c.buf = cp.buf /\ c.res = cp.res
  BY <1>4
<1>7. /\ c.daddr + c.left = cp.daddr + cp.left /\ c.saddr + c.left = cp.saddr + cp.left
      /\ c.saddr - c.daddr = cp.saddr - cp.daddr
  BY <1>1, <1>6, Geometry
<1> QED BY <1>3, <1>5, <1>6, <1>7

LEMMA BootFrame ==
    ASSUME OtaInv, pc \in Boot, pc' \in Boot, UNCHANGED <<upd, resets, running>>,
           flash' \in [0 .. FlashEnd - 1 -> Cells], cp' \in CpType,
           rtc' = rtc, pc' # "load" \/ ~rtc.valid
    PROVE  OtaTypeOK' /\ UpdInv' /\ CommandInv' /\ SketchWhole'
<1>1. OtaTypeOK'
  BY DEF OtaInv, OtaTypeOK, Boot
<1>2. upd = NoUpdate
  BY DEF OtaInv, UpdInv
<1>3. UpdInv'
  BY <1>2 DEF UpdInv, NoUpdate, Writing, Boot
<1>4. CommandInv'
  BY DEF OtaInv, CommandInv, Sketch, Boot
<1>5. SketchWhole'
  BY DEF SketchWhole, Sketch, Boot
<1> QED BY <1>1, <1>3, <1>4, <1>5

LEMMA CopyStep ==
    ASSUME OtaInv, CopyRead \/ CopyErase \/ CopyWrite \/ CopyFails \/ CopyDone,
           UNCHANGED <<upd, resets>>
    PROVE  OtaInv'
<1>1. /\ pc \in {"copy", "erase", "burn"} /\ UNCHANGED <<rtc, running, upd, resets>>
      /\ pc \in Boot
  BY DEF CopyRead, CopyErase, CopyWrite, CopyFails, CopyDone, Boot
<1>2. /\ cp \in CpType /\ cp.saddr \in Nat /\ cp.daddr \in Nat /\ cp.left \in Nat
      /\ rtc \in RtcType /\ rtc.valid /\ rtc.src \in Nat /\ rtc.size \in Nat /\ cp.res = 0
      /\ flash \in [0 .. FlashEnd - 1 -> Cells] /\ upd = NoUpdate
      /\ cp.saddr = rtc.src + cp.daddr /\ cp.daddr + cp.left = RoundUp(rtc.size)
      /\ cp.daddr % SectorSize = 0 /\ rtc.src % SectorSize = 0
      /\ cp.saddr + cp.left <= FlashEnd
      /\ cp.left > 0 => SectorSize <= cp.left
      /\ (cp.daddr + SectorSize) % SectorSize = 0
  BY <1>1, CopyFacts
<1>3. CASE CopyRead
  <2>1. PICK buf : buf = SectorAt(cp.saddr)
    OBVIOUS
  <2>2. /\ pc = "copy" /\ cp.left > 0 /\ UNCHANGED flash
        /\ cp' = IF Skips(buf) THEN Advance(cp) ELSE [cp EXCEPT !.buf = buf]
        /\ pc' = IF Skips(buf) THEN "copy" ELSE "erase"
    BY <1>3, <2>1 DEF CopyRead
  <2>3. CASE Skips(buf)
    <3>1. /\ cp' \in CpType /\ cp'.res = cp.res /\ pc' = "copy"
          /\ cp'.daddr = cp.daddr + SectorSize
          /\ cp'.daddr + cp'.left = cp.daddr + cp.left
          /\ cp'.saddr + cp'.left = cp.saddr + cp.left
          /\ cp'.saddr = rtc.src + cp'.daddr
      BY <1>2, <2>2, <2>3, AdvanceFields, Geometry, SMTT(30)
    <3>2. CopyInv'
      BY <1>1, <1>2, <3>1 DEF CopyInv
    <3> QED BY <1>1, <1>2, <2>2, <3>1, <3>2, BootFrame DEF OtaInv, Boot
  <2>4. CASE ~Skips(buf)
    <3>1. buf \in Seq(Cells) /\ Len(buf) = SectorSize
      <4>1. \A i \in 1 .. SectorSize : cp.saddr + i - 1 \in 0 .. FlashEnd - 1
        <5>1. cp.saddr + SectorSize <= FlashEnd
          BY <1>2, <2>2, Geometry, SMTT(30)
        <5>2. ASSUME NEW i \in 1 .. SectorSize
              PROVE  cp.saddr + i - 1 \in 0 .. FlashEnd - 1
          <6>1. PICK a \in Nat : a = cp.saddr
            BY <1>2
          <6> QED BY <5>1, <6>1, Geometry
        <5> QED BY <5>2
      <4>2. buf \in [1 .. SectorSize -> Cells]
        BY <1>2, <2>1, <4>1 DEF SectorAt
      <4> QED BY <4>2, Geometry
    <3>2. /\ cp' \in CpType /\ cp'.saddr = cp.saddr /\ cp'.daddr = cp.daddr
          /\ cp'.left = cp.left /\ cp'.res = cp.res /\ cp'.buf = buf /\ pc' = "erase"
      BY <1>2, <2>2, <2>4, <3>1 DEF CpType
    <3>3. CopyInv'
      BY <1>1, <1>2, <2>2, <3>1, <3>2 DEF CopyInv
    <3> QED BY <1>1, <1>2, <2>2, <3>2, <3>3, BootFrame DEF OtaInv, Boot
  <2> QED BY <2>3, <2>4
<1>4. CASE CopyErase
  <2>1. /\ pc = "erase" /\ pc' = "burn" /\ UNCHANGED cp
        /\ flash' = EraseSector(flash, cp.daddr)
    BY <1>4 DEF CopyErase
  <2>2. flash' \in [0 .. FlashEnd - 1 -> Cells]
    BY <1>2, <2>1, FlashTypes
  <2>3. CopyInv'
    BY <1>1, <2>1 DEF OtaInv, CopyInv
  <2> QED BY <1>1, <1>2, <2>1, <2>2, <2>3, BootFrame DEF OtaInv, Boot
<1>5. CASE CopyWrite
  <2>1. /\ pc = "burn" /\ pc' = "copy" /\ cp' = Advance(cp)
        /\ flash' = FlashWrite(flash, cp.daddr, cp.buf) /\ cp.left > 0
    BY <1>5 DEF CopyWrite, OtaInv, CopyInv
  <2>2. flash' \in [0 .. FlashEnd - 1 -> Cells]
    BY <1>2, <2>1, FlashTypes DEF CpType
  <2>3. /\ cp' \in CpType /\ cp'.res = cp.res
        /\ cp'.daddr = cp.daddr + SectorSize
        /\ cp'.daddr + cp'.left = cp.daddr + cp.left
        /\ cp'.saddr + cp'.left = cp.saddr + cp.left
        /\ cp'.saddr = rtc.src + cp'.daddr
    BY <1>2, <2>1, AdvanceFields, Geometry, SMTT(30)
  <2>4. CopyInv'
    BY <1>1, <1>2, <2>1, <2>3 DEF CopyInv
  <2> QED BY <1>1, <1>2, <2>1, <2>2, <2>3, <2>4, BootFrame DEF OtaInv, Boot
<1>6. CASE CopyFails
  <2>1. pc' = "clear" /\ cp' = [cp EXCEPT !.res = 1] /\ UNCHANGED flash
    BY <1>6 DEF CopyFails
  <2>2. cp' \in CpType /\ cp'.saddr = cp.saddr /\ cp'.left = cp.left
    BY <1>2, <2>1 DEF CpType
  <2>3. CopyInv'
    BY <1>2, <2>1, <2>2 DEF CopyInv
  <2> QED BY <1>1, <1>2, <2>1, <2>2, <2>3, BootFrame DEF OtaInv, Boot
<1>7. CASE CopyDone
  <2>1. pc' = "clear" /\ UNCHANGED <<cp, flash>>
    BY <1>7 DEF CopyDone
  <2>2. CopyInv'
    BY <1>2, <2>1 DEF CopyInv
  <2> QED BY <1>1, <1>2, <2>1, <2>2, BootFrame DEF OtaInv, Boot
<1> QED BY <1>3, <1>4, <1>5, <1>6, <1>7

LEMMA MainStep ==
    ASSUME OtaInv, MainRead \/ MainClear \/ LoadApp \/ LoadFails, UNCHANGED <<upd, resets>>
    PROVE  OtaInv'
<1>1. /\ pc \in {"boot", "clear", "load"} /\ pc \in Boot /\ UNCHANGED <<flash, upd, resets>>
      /\ flash \in [0 .. FlashEnd - 1 -> Cells] /\ cp \in CpType
      /\ rtc \in RtcType /\ rtc.src \in Nat /\ rtc.size \in Nat
      /\ rtc.src + RoundUp(rtc.size) <= FlashEnd /\ RoundUp(rtc.size) \in Nat
      /\ cp.saddr + cp.left <= FlashEnd /\ upd = NoUpdate /\ running \in Images
  <2>1. pc \in {"boot", "clear", "load"} /\ pc \in Boot /\ UNCHANGED <<flash, upd, resets>>
    BY DEF MainRead, MainClear, LoadApp, LoadFails, Boot
  <2>2. /\ flash \in [0 .. FlashEnd - 1 -> Cells] /\ cp \in CpType
        /\ rtc \in RtcType /\ rtc.src \in Nat /\ rtc.size \in Nat
    BY DEF OtaInv, OtaTypeOK, RtcType
  <2>3. RoundUp(rtc.size) \in Nat
    BY <2>2, RoundUpFacts
  <2> QED BY <2>1, <2>2, <2>3 DEF OtaInv, OtaTypeOK, CommandInv, CopyInv, UpdInv
<1>2. CASE MainRead
  <2>1. pc = "boot" /\ UNCHANGED <<rtc, running>>
    BY <1>2 DEF MainRead, ClearedOnRead
  <2>2. CASE ~rtc.valid /\ cp' = NoCopy /\ pc' = "load"
    <3>1. CopyInv'
      BY <2>2, NoCopyType, Geometry DEF CopyInv
    <3> QED BY <1>1, <2>1, <2>2, <3>1, NoCopyType, BootFrame DEF OtaInv, Boot
  <2>3. CASE /\ rtc.valid
             /\ cp' = [NoCopy EXCEPT !.saddr = rtc.src, !.left = CopyLength(rtc.size),
                                 !.res = IF rtc.src % SectorSize = 0 THEN 0 ELSE 1]
             /\ pc' = IF cp'.res = 0 THEN "copy" ELSE "clear"
    <3>1. PICK r \in {0, 1} : r = IF rtc.src % SectorSize = 0 THEN 0 ELSE 1
      OBVIOUS
    <3>2. cp' = [saddr |-> rtc.src, daddr |-> 0, left |-> RoundUp(rtc.size), buf |-> <<>>,
                 res |-> r]
      BY <2>3, <3>1 DEF NoCopy, CopyLength
    <3>3. <<>> \in Seq(Cells)
      OBVIOUS
    <3>4. cp' \in CpType
      BY <1>1, <3>2, <3>3 DEF CpType
    <3>5. /\ cp'.saddr = rtc.src /\ cp'.daddr = 0 /\ cp'.left = RoundUp(rtc.size)
          /\ cp'.res = r /\ pc' \in {"copy", "clear"}
      <4>1. /\ cp'.saddr = rtc.src /\ cp'.daddr = 0 /\ cp'.left = RoundUp(rtc.size)
            /\ cp'.res = r
        BY <3>2
      <4> QED BY <2>3, <4>1
    <3>6. pc' = "copy" => r = 0 /\ rtc.src % SectorSize = 0
      BY <2>3, <3>1, <3>5
    <3>7. CopyInv'
      BY <1>1, <2>1, <2>3, <3>5, <3>6, Geometry DEF CopyInv
    <3> QED BY <1>1, <2>1, <3>4, <3>5, <3>7, BootFrame DEF OtaInv, Boot
  <2> QED BY <1>2, <2>2, <2>3 DEF MainRead
<1>3. CASE MainClear
  <2>1. /\ rtc' = [rtc EXCEPT !.valid = FALSE] /\ pc' \in {"load", "boot"}
        /\ UNCHANGED <<cp, running>>
    BY <1>3 DEF MainClear
  <2>2. rtc' \in RtcType /\ rtc'.src = rtc.src /\ rtc'.size = rtc.size /\ ~rtc'.valid
    BY <1>1, <2>1 DEF RtcType
  <2>3. OtaTypeOK'
    BY <1>1, <2>1, <2>2 DEF OtaInv, OtaTypeOK, Boot
  <2>4. UpdInv'
    BY <1>1, <2>1 DEF UpdInv, NoUpdate, Writing, Boot
  <2>5. CommandInv'
    BY <1>1, <2>1, <2>2 DEF CommandInv, Sketch
  <2>6. CopyInv'
    BY <1>1, <2>1 DEF CopyInv
  <2>7. SketchWhole'
    BY <2>1 DEF SketchWhole, Sketch
  <2> QED BY <2>3, <2>4, <2>5, <2>6, <2>7 DEF OtaInv
<1>4. CASE LoadApp
  <2>1. pc = "load" /\ ~rtc.valid /\ cp' = NoCopy /\ UNCHANGED rtc
    BY <1>4 DEF LoadApp, OtaInv, CommandInv
  <2>2. \/ \E m \in Images : Holds(flash, 0, m) /\ running' = m /\ pc' = "idle"
        \/ running' = "torn" /\ pc' = "dead"
    BY <1>4 DEF LoadApp
  <2>3. OtaTypeOK'
    BY <1>1, <2>1, <2>2, NoCopyType DEF OtaInv, OtaTypeOK, Sketch
  <2>4. UpdInv'
    BY <1>1, <2>2 DEF UpdInv, NoUpdate, Writing, Boot
  <2>5. CommandInv'
    BY <1>1, <2>1, <2>2 DEF CommandInv, Sketch
  <2>6. CopyInv'
    BY <2>1, <2>2, NoCopyType, Geometry DEF CopyInv
  <2>7. SketchWhole'
    BY <1>1, <2>2 DEF SketchWhole, Sketch, Holds
  <2> QED BY <2>3, <2>4, <2>5, <2>6, <2>7 DEF OtaInv
<1>5. CASE LoadFails
  <2>1. pc = "load" /\ pc' = "boot" /\ UNCHANGED <<cp, rtc, running>>
    BY <1>5 DEF LoadFails
  <2>2. CopyInv'
    BY <1>1, <2>1 DEF CopyInv
  <2> QED BY <1>1, <2>1, <2>2, BootFrame DEF OtaInv, Boot
<1> QED BY <1>2, <1>3, <1>4, <1>5

LEMMA NextInv == ASSUME OtaInv, [Next]_vars PROVE OtaInv'
<1>1. CASE UpdNext /\ UNCHANGED <<cp, resets>>
  BY <1>1, BeginStep, SetMD5Step, WriteCallStep, WriteFillStep, StreamStep, FlushStep,
     EndCallStep, EndVerifyStep, StageStep DEF UpdNext
<1>2. CASE BootStep
  BY <1>2, CopyStep, MainStep DEF BootStep, EbootNext
<1>3. CASE ChipReset \/ PowerCut
  BY <1>3, ResetStep
<1>4. CASE UNCHANGED vars
  BY <1>4 DEF vars, OtaInv, OtaTypeOK, UpdInv, Reserved, CommandInv, CopyInv, SketchWhole, Holds
<1> QED BY <1>1, <1>2, <1>3, <1>4 DEF Next

\* Where the update, the command and the copy are in flash, at every step.
THEOREM OtaInvariant == Spec => []OtaInv
  BY InitInv, NextInv, PTL DEF Spec

\* No update, whatever its size, its errors and the resets during it, erases
\* or overwrites a cell of the sketch that executes (begin(), _writeBuffer()).
THEOREM SketchStaysWhole == Spec => []SketchWhole
<1>1. OtaInv => SketchWhole
  BY DEF OtaInv
<1> QED BY <1>1, OtaInvariant, PTL

LEMMA OtaInvTypeOK == OtaInv => TypeOK
<1> SUFFICES ASSUME OtaInv PROVE TypeOK
  OBVIOUS
<1>1. /\ pc \in Sketch \cup Boot \cup {"dead"} /\ flash \in [0 .. FlashEnd - 1 -> Cells]
      /\ running \in Images \cup {"torn"} /\ resets \in 0 .. MaxResets
      /\ rtc.valid \in BOOLEAN /\ rtc.src \in Nat /\ rtc.size \in Nat
      /\ upd.size \in Nat /\ upd.start \in Nat /\ upd.cur \in Nat /\ upd.bufSize \in Nat
      /\ upd.sent \in Nat /\ upd.buf \in Seq(Cells) /\ upd.left \in Seq(Cells)
      /\ upd.error \in Errors
  BY DEF OtaInv, OtaTypeOK, RtcType, UpdType
<1>2. rtc.src \in 0 .. FlashEnd /\ rtc.size \in 0 .. FlashEnd
  <2>1. RoundUp(rtc.size) \in Nat /\ rtc.size <= RoundUp(rtc.size)
    BY <1>1, RoundUpFacts
  <2>2. rtc.src + RoundUp(rtc.size) <= FlashEnd
    BY DEF OtaInv, CommandInv
  <2> QED BY <1>1, <2>1, <2>2, Geometry, SMTT(30)
<1>3. Len(upd.buf) \in Nat /\ Len(upd.left) \in Nat
  BY <1>1
<1>4. upd.start <= upd.cur /\ upd.cur - upd.start <= upd.size /\ Len(upd.buf) <= upd.bufSize
  <2>1. CASE pc = "command"
    BY <2>1 DEF OtaInv, UpdInv
  <2>2. CASE pc # "command" /\ upd.size > 0
    <3>1. Reserved
      BY <2>2 DEF OtaInv, UpdInv
    <3>2. PICK lb \in Nat, ll \in Nat : lb = Len(upd.buf) /\ ll = Len(upd.left)
      BY <1>3
    <3>3. (upd.cur - upd.start) + lb + ll = upd.sent /\ upd.sent <= upd.size
      BY <3>1, <3>2 DEF Reserved
    <3>4. upd.cur - upd.start <= upd.size
      BY <1>1, <3>2, <3>3, SMTT(30)
    <3> QED BY <3>1, <3>4 DEF Reserved
  <2>3. CASE pc # "command" /\ upd.size = 0
    <3>1. upd.start = 0 /\ upd.cur = 0 /\ upd.buf = <<>>
      BY <2>3 DEF OtaInv, UpdInv
    <3>2. Len(upd.buf) = 0
      BY <3>1
    <3> QED BY <1>1, <2>3, <3>1, <3>2
  <2> QED BY <1>1, <2>1, <2>2, <2>3
<1>5. upd.size \in 0 .. FlashEnd
  <2>1. CASE upd.size > 0 /\ pc \in Sketch /\ pc # "command"
    BY <1>1, <2>1, RunningFacts, Geometry
  <2>2. CASE upd.size = 0
    BY <2>2, Geometry
  <2>3. CASE pc = "command"
    <3>1. upd.size <= FlashEnd
      BY <2>3 DEF OtaInv, UpdInv
    <3> QED BY <1>1, <3>1, Geometry
  <2>4. CASE pc \in Boot \cup {"dead"}
    <3>1. upd.size = 0
      BY <2>4 DEF OtaInv, UpdInv, NoUpdate
    <3> QED BY <2>2, <3>1
  <2> QED BY <1>1, <2>1, <2>2, <2>3, <2>4
<1>6. cp.saddr + cp.left <= FlashEnd
  BY DEF OtaInv, CopyInv
<1> QED BY <1>1, <1>2, <1>4, <1>5, <1>6 DEF TypeOK, progress

-----------------------------------------------------------------------------
(* What the MD5 was computed of is what is in flash. *)

\* A buffer is never split by a sector: it starts at a multiple of its size,
\* which divides the sector.
LEMMA BufferInSector ==
    ASSUME NEW s \in Nat, NEW c \in Nat, NEW b \in BufferSizes,
           s % SectorSize = 0, s <= c, (c - s) % b = 0
    PROVE  (c % SectorSize) + b <= SectorSize
<1>1. b \in Nat \ {0} /\ SectorSize % b = 0 /\ SectorSize \in Nat \ {0}
  BY UpdaterAssumption, Geometry
<1>2. PICK k \in Nat : SectorSize = k * b
  <2>1. b \in Nat /\ b > 0 /\ SectorSize \in Nat
    BY <1>1
  <2>2. SectorSize = (SectorSize \div b) * b + (SectorSize % b) /\ SectorSize \div b \in Nat
    BY <2>1
  <2> QED BY <1>1, <2>1, <2>2
<1>3. PICK j \in Nat : s = j * SectorSize
  BY <1>1
<1>4. PICK l \in Nat : c - s = l * b
  BY <1>1
<1>5. PICK q \in Nat, r \in Nat : /\ q = c \div SectorSize /\ r = c % SectorSize
                                  /\ c = q * SectorSize + r /\ r < SectorSize
  BY <1>1
<1>6. PICK t \in Int : t = (j * k + l) - q * k
  OBVIOUS
<1>7. r = t * b
  <2>1. r = (j * SectorSize + l * b) - q * SectorSize
    <3>1. c = j * SectorSize + l * b
      BY <1>1, <1>3, <1>4
    <3>2. PICK x \in Nat, y \in Nat : x = q * SectorSize /\ y = j * SectorSize + l * b
      BY <1>1
    <3>3. c = x + r /\ c = y
      BY <1>5, <3>1, <3>2
    <3>4. r = y - x
      BY <3>3
    <3> QED BY <3>2, <3>4
  <2>2. r = (j * (k * b) + l * b) - q * (k * b)
    BY <1>2, <2>1
  <2>3. (j * (k * b) + l * b) - q * (k * b) = ((j * k + l) - q * k) * b
    BY <1>1
  <2> QED BY <1>6, <2>2, <2>3
<1>8. t < k
  BY <1>1, <1>2, <1>5, <1>7
<1>9. (t + 1) * b <= k * b
  BY <1>1, <1>8
<1> QED BY <1>1, <1>2, <1>5, <1>7, <1>9

\* The addresses of a sector, counted from one of them.
LEMMA SectorRest ==
    ASSUME NEW c \in Nat, NEW n \in Nat, (c % SectorSize) + n <= SectorSize, c + n <= FlashEnd
    PROVE  /\ \A a \in c .. c + n - 1 : a \in Sector(c)
           /\ (c + n) % SectorSize # 0 => Sector(c + n) = Sector(c)
<1>1. PICK q \in Nat, r \in Nat : /\ q = c \div SectorSize /\ r = c % SectorSize
                                  /\ c = q * SectorSize + r /\ r < SectorSize
  BY Geometry
<1>2. ASSUME NEW d \in Nat, r + d < SectorSize
      PROVE  (c + d) \div SectorSize = q
  BY <1>1, <1>2, Geometry
<1>3. ASSUME NEW a \in c .. c + n - 1
      PROVE  a \in Sector(c)
  <2>1. PICK d \in Nat : a = c + d /\ d < n
    BY <1>3
  <2>2. a \div SectorSize = q
    <3>1. r + d < SectorSize
      BY <1>1, <2>1, Geometry
    <3> QED BY <1>2, <2>1, <3>1
  <2> QED BY <1>1, <1>3, <2>2, Geometry DEF Sector
<1>4. ASSUME (c + n) % SectorSize # 0
      PROVE  Sector(c + n) = Sector(c)
  <2>1. r + n # SectorSize
    <3>1. SUFFICES ASSUME r + n = SectorSize PROVE FALSE
      OBVIOUS
    <3>2. c + n = (q + 1) * SectorSize
      BY <1>1, <3>1, Geometry
    <3>3. PICK k \in Nat : k = q + 1
      BY <1>1, Geometry
    <3>4. (k * SectorSize) % SectorSize = 0
      BY Geometry
    <3> QED BY <1>4, <3>2, <3>3, <3>4
  <2>2. (c + n) \div SectorSize = q
    BY <1>1, <1>2, <2>1, Geometry
  <2> QED BY <1>1, <2>2 DEF Sector
<1> QED BY <1>3, <1>4

\* The cursor and what is buffered stay below the file system.
LEMMA CursorBound ==
    ASSUME OtaInv, upd.size > 0, pc \in Sketch, pc # "command"
    PROVE  /\ upd.cur <= FlashEnd /\ upd.cur + Len(upd.buf) <= FlashEnd
           /\ upd.cur - upd.start + Len(upd.buf) <= upd.size
<1>1. /\ Reserved /\ upd.size \in Nat /\ upd.start \in Nat /\ upd.cur \in Nat
      /\ upd.sent \in Nat /\ Len(upd.buf) \in Nat /\ Len(upd.left) \in Nat
  BY RunningFacts
<1>2. PICK lb \in Nat, ll \in Nat : lb = Len(upd.buf) /\ ll = Len(upd.left)
  BY <1>1
<1>3. PICK r \in Nat : r = RoundUp(upd.size) /\ upd.size <= r
  BY <1>1, RoundUpFacts
<1>4. /\ (upd.cur - upd.start) + lb + ll = upd.sent /\ upd.sent <= upd.size
      /\ upd.start + r <= FlashEnd
  BY <1>1, <1>2, <1>3 DEF Reserved
<1>5. PICK c \in Nat, s \in Nat, n \in Nat, z \in Nat :
         c = upd.cur /\ s = upd.start /\ n = upd.sent /\ z = upd.size
  BY <1>1
<1>6. (c - s) + lb + ll = n /\ n <= z /\ z <= r /\ s + r <= FlashEnd
  BY <1>3, <1>4, <1>5
<1>7. (c - s) + lb <= z /\ c + lb <= FlashEnd /\ c <= FlashEnd
  BY <1>6, Geometry
<1> QED BY <1>2, <1>5, <1>7

LEMMA DataQuiet ==
    ASSUME OtaInv, DataInv, pc \in {"idle", "write", "stream"},
           pc' \in {"idle", "write", "stream", "flush", "verify"}, UNCHANGED flash,
           upd'.size = upd.size, upd'.start = upd.start, upd'.cur = upd.cur,
           upd'.bufSize = upd.bufSize, upd'.md5 = upd.md5,
           pc' = "flush" => \/ Len(upd'.buf) = upd.bufSize \/ upd'.back = "verify"
                            \/ Len(upd'.buf) = upd.size - (upd.cur - upd.start)
    PROVE  DataInv'
<1> SUFFICES ASSUME ~Signed, upd.size > 0 PROVE DataInv'
  BY DEF DataInv
<1>1. /\ Len(upd.md5) = upd.cur - upd.start
      /\ \A i \in 1 .. Len(upd.md5) : Is(upd.start + i - 1, upd.md5[i].img, upd.md5[i].pos)
      /\ upd.cur % SectorSize # 0 => \A a \in Sector(upd.cur) : a >= upd.cur => flash[a] = Erased
      /\ \/ (upd.cur - upd.start) % upd.bufSize = 0
         \/ upd.cur - upd.start = upd.size
  BY DEF DataInv, Sketch
<1> QED BY <1>1 DEF DataInv, Is, Sector

LEMMA DataDropped ==
    ASSUME upd'.size = 0 \/ pc' \notin Sketch \/ pc' = "command"
    PROVE  DataInv'
  BY DEF DataInv

LEMMA DataBegin == ASSUME OtaInv, OtaInv', BeginCall PROVE DataInv'
<1> SUFFICES ASSUME upd'.size # 0 PROVE DataInv'
  BY DataDropped
<1>1. pc' = "idle" /\ upd \in UpdType /\ upd' \in UpdType
  BY DEF BeginCall, OtaInv, OtaTypeOK
<1>2. upd'.start \in Nat /\ upd'.start % SectorSize = 0
  <2>1. upd'.size > 0 /\ upd'.start \in Nat
    BY <1>1, SMTT(30) DEF UpdType
  <2> QED BY <1>1, <2>1 DEF OtaInv, UpdInv, Reserved
<1>3. \A u \in UpdType, e \in {"running", "refused", "space", "oom"} : upd' # SetError(u, e)
  <2>1. {"running", "refused", "space", "oom"} \subseteq Errors
    BY DEF Errors
  <2>2. \A u \in UpdType, e \in Errors : SetError(u, e).size = 0
    BY SetErrorFields
  <2> QED BY <2>1, <2>2
<1>4. \A m \in Images : Fresh(m) \in UpdType
  <2> TAKE m \in Images
  <2>1. PICK r \in UpdType : r = Reset(upd)
    BY <1>1, ResetFields
  <2>2. PICK f : f = [r EXCEPT !.error = "ok", !.target = "none", !.md5 = <<>>,
                               !.src = m, !.sent = 0, !.ret = "none"]
    OBVIOUS
  <2>3. f = [size |-> r.size, start |-> r.start, cur |-> r.cur, bufSize |-> r.bufSize,
             buf |-> r.buf, left |-> r.left, back |-> r.back, even |-> r.even,
             error |-> "ok", target |-> "none", md5 |-> <<>>, src |-> m, sent |-> 0,
             ret |-> "none"]
    BY <2>2 DEF UpdType
  <2>4. <<>> \in Seq(Cells) /\ "ok" \in Errors
    BY DEF Errors
  <2>5. f \in UpdType
    BY <2>3, <2>4 DEF UpdType
  <2> QED BY <2>1, <2>2, <2>5 DEF Fresh
<1>5. ~BeginRunning /\ ~BeginRefused
  BY <1>1, <1>3 DEF BeginRunning, BeginRefused
<1>6. PICK m \in Images : \E n : Begin(m, n)
  BY <1>5, Zenon DEF BeginCall
<1> PICK n : Begin(m, n)
  BY <1>6
<1>7. upd' # SetError(Fresh(m), "space") /\ upd' # SetError(Fresh(m), "oom")
  BY <1>3, <1>4
<1>8. PICK b \in BufferSizes :
         upd' = [Fresh(m) EXCEPT !.start = StartAddress(n), !.cur = StartAddress(n),
                                 !.size = n, !.bufSize = b]
  BY <1>6, <1>7 DEF Begin
<1>9. upd'.cur = upd'.start /\ upd'.md5 = <<>> /\ upd'.bufSize = b
  BY <1>1, <1>8, ZenonT(60) DEF Fresh, Reset, UpdType
<1>10. Len(upd'.md5) = 0 /\ upd'.cur - upd'.start = 0
  BY <1>2, <1>9
<1>11. b \in Nat \ {0}
  BY UpdaterAssumption, Geometry
<1>12. 0 % b = 0
  BY <1>11
<1> QED BY <1>1, <1>2, <1>9, <1>10, <1>12 DEF DataInv

\* The steps between begin() and end() that move no data to the flash.
LEMMA DataWrite ==
    ASSUME OtaInv, DataInv,
           \/ SetMD5 \/ WriteCall \/ WriteAvailable \/ WriteFill
           \/ StreamCall \/ StreamRead \/ StreamTimeout \/ StreamDone
    PROVE  DataInv'
<1>1. /\ upd \in UpdType /\ UNCHANGED flash /\ pc \in {"idle", "write", "stream"}
      /\ pc' \in {"idle", "write", "stream", "flush"}
  BY DEF SetMD5, WriteCall, WriteAvailable, WriteFill, StreamCall, StreamRead, StreamTimeout,
         StreamDone, OtaInv, OtaTypeOK
<1>2. ASSUME NEW e \in {"space", "magic", "stream"}, upd' = SetError(upd, e)
      PROVE  DataInv'
  <2>1. e \in Errors
    BY DEF Errors
  <2> QED BY <1>1, <1>2, <2>1, SetErrorFields, DataDropped
<1>3. CASE SetMD5
  <2>1. pc' # "flush" /\ upd' = [upd EXCEPT !.target = upd.src]
    BY <1>3 DEF SetMD5
  <2>2. /\ upd'.size = upd.size /\ upd'.start = upd.start /\ upd'.cur = upd.cur
        /\ upd'.bufSize = upd.bufSize /\ upd'.md5 = upd.md5
    BY <1>1, <2>1 DEF UpdType
  <2> QED BY <1>1, <2>1, <2>2, DataQuiet
<1>4. CASE WriteCall \/ WriteAvailable
  <2>1. ASSUME NEW n, NEW d, pc' = "write",
               upd' = [upd EXCEPT !.left = d, !.sent = @ + n, !.back = "write"]
        PROVE  DataInv'
    <3>1. /\ upd'.size = upd.size /\ upd'.start = upd.start /\ upd'.cur = upd.cur
          /\ upd'.bufSize = upd.bufSize /\ upd'.md5 = upd.md5
      BY <1>1, <2>1 DEF UpdType
    <3> QED BY <1>1, <2>1, <3>1, DataQuiet
  <2> QED BY <1>2, <1>4, <2>1 DEF WriteCall, WriteAvailable
<1>5. CASE WriteFill
  <2>1. PICK n, buf, left :
          /\ n = IF Len(upd.left) > upd.bufSize - Len(upd.buf)
                 THEN upd.bufSize - Len(upd.buf) ELSE Len(upd.left)
          /\ buf = upd.buf \o SubSeq(upd.left, 1, n)
          /\ upd' = [upd EXCEPT !.buf = buf, !.left = left]
          /\ pc' = IF n < Len(upd.left) \/ Len(buf) = remaining THEN "flush" ELSE "idle"
    BY <1>1, <1>5 DEF WriteFill, UpdType
  <2>2. /\ upd'.size = upd.size /\ upd'.start = upd.start /\ upd'.cur = upd.cur
        /\ upd'.bufSize = upd.bufSize /\ upd'.md5 = upd.md5 /\ upd'.buf = buf
    BY <1>1, <2>1 DEF UpdType
  <2>3. Reserved
    BY <1>5 DEF WriteFill, OtaInv, UpdInv, Writing
  <2>4. /\ Len(upd.buf) \in Nat /\ Len(upd.left) \in Nat /\ upd.bufSize \in Nat
        /\ upd.buf \in Seq(Cells) /\ upd.left \in Seq(Cells) /\ Len(upd.buf) <= upd.bufSize
    BY <1>1, <2>3 DEF UpdType, Reserved
  <2>5. n < Len(upd.left) => Len(buf) = upd.bufSize
    <3>1. SUFFICES ASSUME n < Len(upd.left) PROVE Len(buf) = upd.bufSize
      OBVIOUS
    <3>2. n = upd.bufSize - Len(upd.buf) /\ n \in Nat /\ n <= Len(upd.left)
      <4>1. n = IF Len(upd.left) > upd.bufSize - Len(upd.buf)
                THEN upd.bufSize - Len(upd.buf) ELSE Len(upd.left)
        BY <2>1
      <4> HIDE <2>1
      <4>2. PICK lb \in Nat, ll \in Nat, bs \in Nat :
               lb = Len(upd.buf) /\ ll = Len(upd.left) /\ bs = upd.bufSize /\ lb <= bs
        BY <2>4
      <4>3. n = (IF ll > bs - lb THEN bs - lb ELSE ll) /\ n < ll
        BY <3>1, <4>1, <4>2
      <4>4. n = bs - lb /\ n \in Nat /\ n <= ll
        BY <4>2, <4>3
      <4> QED BY <4>2, <4>4
    <3>3. SubSeq(upd.left, 1, n) \in Seq(Cells) /\ Len(SubSeq(upd.left, 1, n)) = n
      BY <2>4, <3>2, SubSeqProperties
    <3>4. Len(buf) = Len(upd.buf) + n
      BY <2>1, <2>4, <3>3, ConcatProperties
    <3> QED BY <2>4, <3>2, <3>4
  <2>6. pc' = "flush" => \/ Len(upd'.buf) = upd.bufSize
                         \/ Len(upd'.buf) = upd.size - (upd.cur - upd.start)
    BY <2>1, <2>2, <2>5 DEF remaining, progress
  <2> QED BY <1>1, <2>2, <2>6, DataQuiet
<1>6. CASE StreamCall
  <2>1. ASSUME pc' = "stream", upd' = [upd EXCEPT !.back = "stream"]
        PROVE  DataInv'
    <3>1. /\ upd'.size = upd.size /\ upd'.start = upd.start /\ upd'.cur = upd.cur
          /\ upd'.bufSize = upd.bufSize /\ upd'.md5 = upd.md5
      BY <1>1, <2>1 DEF UpdType
    <3> QED BY <1>1, <2>1, <3>1, DataQuiet
  <2> QED BY <1>2, <1>6, <2>1 DEF StreamCall
<1>7. CASE StreamRead
  <2>1. PICK n, buf : /\ upd' = [upd EXCEPT !.buf = buf, !.sent = @ + n]
                      /\ pc' = IF Len(buf) \in {remaining, upd.bufSize} THEN "flush" ELSE pc
    BY <1>7 DEF StreamRead
  <2>2. /\ upd'.size = upd.size /\ upd'.start = upd.start /\ upd'.cur = upd.cur
        /\ upd'.bufSize = upd.bufSize /\ upd'.md5 = upd.md5 /\ upd'.buf = buf
    BY <1>1, <2>1 DEF UpdType
  <2>3. pc' = "flush" => \/ Len(upd'.buf) = upd.bufSize
                         \/ Len(upd'.buf) = upd.size - (upd.cur - upd.start)
    BY <1>1, <1>7, <2>1, <2>2 DEF remaining, progress, StreamRead
  <2> QED BY <1>1, <2>2, <2>3, DataQuiet
<1>8. CASE StreamTimeout
  BY <1>2, <1>8 DEF StreamTimeout
<1>9. CASE StreamDone
  <2>1. pc' = "idle" /\ UNCHANGED upd
    BY <1>9 DEF StreamDone
  <2> QED BY <1>1, <2>1, DataQuiet
<1> QED BY <1>3, <1>4, <1>5, <1>6, <1>7, <1>8, <1>9

\* An erase reaches only cells at or above the cursor.
LEMMA DataErase == ASSUME OtaInv, OtaInv', DataInv, FlushErase PROVE DataInv'
<1> SUFFICES ASSUME ~Signed, upd'.size # 0 PROVE DataInv'
  BY DataDropped DEF DataInv
<1>1. pc = "flush" /\ upd \in UpdType /\ upd.size > 0
  BY DEF FlushErase, OtaInv, OtaTypeOK, UpdInv, Writing
<1>2. upd' # SetError(upd, "erase")
  <2>1. "erase" \in Errors
    BY DEF Errors
  <2> QED BY <1>1, <2>1, SetErrorFields
<1>3. /\ pc' = "program" /\ UNCHANGED upd
      /\ \/ NeedsErase(upd.cur) /\ flash' = EraseSector(flash, upd.cur)
         \/ ~NeedsErase(upd.cur) /\ UNCHANGED flash
  BY <1>2 DEF FlushErase
<1>4. /\ Reserved /\ upd.start \in Nat /\ upd.cur \in Nat /\ upd.md5 \in Seq(Cells)
      /\ flash \in [0 .. FlashEnd - 1 -> Cells] /\ upd.size \in Nat /\ upd.sent \in Nat
      /\ Len(upd.md5) \in Nat /\ upd.start <= upd.cur
  <2>1. Reserved /\ flash \in [0 .. FlashEnd - 1 -> Cells]
    BY <1>1 DEF OtaInv, OtaTypeOK, UpdInv
  <2>2. /\ upd.start \in Nat /\ upd.cur \in Nat /\ upd.md5 \in Seq(Cells)
        /\ upd.size \in Nat /\ upd.sent \in Nat
    BY <1>1 DEF UpdType
  <2> QED BY <2>1, <2>2 DEF Reserved
<1>5. /\ Len(upd.md5) = upd.cur - upd.start
      /\ \A i \in 1 .. Len(upd.md5) : Is(upd.start + i - 1, upd.md5[i].img, upd.md5[i].pos)
      /\ upd.cur % SectorSize # 0 => \A a \in Sector(upd.cur) : a >= upd.cur => flash[a] = Erased
      /\ \/ (upd.cur - upd.start) % upd.bufSize = 0
         \/ upd.cur - upd.start = upd.size
      /\ \/ Len(upd.buf) = upd.bufSize \/ upd.back = "verify"
         \/ Len(upd.buf) = upd.size - (upd.cur - upd.start)
  BY <1>1 DEF DataInv, Sketch
<1>6. \A i \in 1 .. Len(upd.md5) : flash'[upd.start + i - 1] = flash[upd.start + i - 1]
  <2> TAKE i \in 1 .. Len(upd.md5)
  <2>1. PICK a \in Int : a = upd.start + i - 1
    BY <1>4
  <2>2. a < upd.cur /\ a >= 0
    BY <1>4, <1>5, <2>1
  <2>3. a \in 0 .. FlashEnd - 1
    <3>1. upd.cur <= FlashEnd
      BY <1>1, CursorBound DEF Sketch
    <3> QED BY <1>4, <2>1, <2>2, <3>1, Geometry
  <2>4. NeedsErase(upd.cur) => a \notin Sector(upd.cur)
    <3>1. \A b \in Sector(upd.cur) : upd.cur % SectorSize = 0 => upd.cur <= b
      BY <1>4, SectorFacts
    <3> QED BY <1>4, <2>2, <3>1 DEF NeedsErase
  <2> QED BY <1>3, <1>4, <2>1, <2>3, <2>4 DEF EraseSector
<1>7. \A a \in Sector(upd.cur) : a >= upd.cur => flash'[a] = Erased
  <2>1. \A a \in Sector(upd.cur) : a \in 0 .. FlashEnd - 1
    BY DEF Sector
  <2> QED BY <1>3, <1>4, <1>5, <2>1 DEF NeedsErase, EraseSector
<1> QED BY <1>1, <1>3, <1>5, <1>6, <1>7 DEF DataInv, Is, Sector

\* Erased cells take what is programmed.
LEMMA Written ==
    ASSUME NEW f \in [0 .. FlashEnd - 1 -> Cells], NEW a \in Nat, NEW d \in Seq(Cells),
           \A b \in a .. a + Len(d) - 1 : f[b] = Erased
    PROVE  \A b \in 0 .. FlashEnd - 1 :
              FlashWrite(f, a, d)[b] = IF b \in a .. a + Len(d) - 1 THEN d[b - a + 1] ELSE f[b]
  BY DEF FlashWrite

LEMMA DataProgram == ASSUME OtaInv, OtaInv', DataInv, FlushProgram PROVE DataInv'
<1> SUFFICES ASSUME ~Signed, upd'.size # 0 PROVE DataInv'
  BY DataDropped DEF DataInv
<1>1. pc = "program" /\ upd \in UpdType /\ upd.size > 0 /\ pc \in Sketch /\ pc # "command"
  BY DEF FlushProgram, OtaInv, OtaTypeOK, UpdInv, Writing, Sketch
<1>2. upd' # SetError(upd, "write")
  <2>1. "write" \in Errors
    BY DEF Errors
  <2> QED BY <1>1, <2>1, SetErrorFields
<1>3. /\ flash' = FlashWrite(flash, upd.cur, Programmed)
      /\ upd' = [upd EXCEPT !.md5 = upd.md5 \o upd.buf, !.cur = @ + Len(upd.buf), !.buf = <<>>]
      /\ pc' = AfterSuccess
  BY <1>2 DEF FlushProgram, Md5After
<1>4. /\ upd'.size = upd.size /\ upd'.start = upd.start /\ upd'.bufSize = upd.bufSize
      /\ upd'.cur = upd.cur + Len(upd.buf) /\ upd'.md5 = upd.md5 \o upd.buf
  BY <1>1, <1>3 DEF UpdType
<1>5. pc' \in {"idle", "write", "stream", "verify"} /\ (upd.back = "verify" => pc' = "verify")
  <2>1. upd.back \in {"idle", "write", "stream", "verify"}
    BY <1>1 DEF UpdType
  <2> QED BY <1>3, <2>1 DEF AfterSuccess
<1>6. /\ Reserved /\ flash \in [0 .. FlashEnd - 1 -> Cells] /\ upd.md5 \in Seq(Cells)
      /\ upd.buf \in Seq(Cells)
  BY <1>1 DEF OtaInv, OtaTypeOK, UpdInv, UpdType
<1>7. PICK c \in Nat, s \in Nat, z \in Nat, L \in Nat, M \in Nat :
         /\ c = upd.cur /\ s = upd.start /\ z = upd.size
         /\ L = Len(upd.buf) /\ M = Len(upd.md5)
  BY <1>1, <1>6 DEF UpdType
<1>8. PICK b \in BufferSizes : b = upd.bufSize
  BY <1>6 DEF Reserved
<1>9. b \in Nat \ {0}
  BY UpdaterAssumption, Geometry
<1>10. /\ s <= c /\ s % SectorSize = 0 /\ L <= b /\ c + L <= FlashEnd /\ (c - s) + L <= z
  BY <1>1, <1>6, <1>7, <1>8, CursorBound DEF Reserved
<1>11. /\ M = c - s
       /\ \A i \in 1 .. M : Is(s + i - 1, upd.md5[i].img, upd.md5[i].pos)
       /\ \A a \in Sector(c) : a >= c => flash[a] = Erased
       /\ (c - s) % b = 0 \/ c - s = z
       /\ L = b \/ upd.back = "verify" \/ L = z - (c - s)
  BY <1>1, <1>7, <1>8 DEF DataInv
<1>12. (c % SectorSize) + L <= SectorSize
  <2>1. CASE (c - s) % b = 0
    <3>1. (c % SectorSize) + b <= SectorSize
      BY <1>10, <2>1, BufferInSector
    <3> QED BY <1>9, <1>10, <3>1, Geometry
  <2>2. CASE c - s = z
    <3>1. L = 0
      BY <1>10, <2>2
    <3> QED BY <3>1, Geometry
  <2> QED BY <1>11, <2>1, <2>2
<1>13. /\ \A a \in c .. c + L - 1 : a \in Sector(c)
       /\ (c + L) % SectorSize # 0 => Sector(c + L) = Sector(c)
  BY <1>10, <1>12, SectorRest
<1>14. Programmed \in Seq(Cells) /\ Len(Programmed) = L
  BY <1>1, <1>7, ProgrammedType
<1>15. \A a \in 0 .. FlashEnd - 1 :
          flash'[a] = IF a \in c .. c + L - 1 THEN Programmed[a - c + 1] ELSE flash[a]
  <2>1. \A a \in c .. c + L - 1 : flash[a] = Erased
    BY <1>11, <1>13
  <2>2. PICK p \in Seq(Cells) : p = Programmed /\ Len(p) = L
    BY <1>14
  <2>3. \A a \in 0 .. FlashEnd - 1 : FlashWrite(flash, c, p)[a]
            = IF a \in c .. c + Len(p) - 1 THEN p[a - c + 1] ELSE flash[a]
    <3>1. \A a \in c .. c + Len(p) - 1 : flash[a] = Erased
      BY <2>1, <2>2
    <3> QED BY <1>6, <3>1, Written
  <2>4. flash' = FlashWrite(flash, c, p)
    BY <1>3, <1>7, <2>2
  <2> QED BY <2>2, <2>3, <2>4
<1>16. Len(upd'.md5) = M + L /\ (c + L) - s = M + L
  <2>1. Len(upd.md5 \o upd.buf) = Len(upd.md5) + Len(upd.buf)
    BY <1>6, ConcatProperties
  <2>2. Len(upd'.md5) = M + L
    BY <1>4, <1>7, <2>1
  <2>3. (c + L) - s = M + L
    BY <1>11
  <2> QED BY <2>2, <2>3
<1>17. ASSUME NEW i \in 1 .. M + L
       PROVE  /\ flash'[s + i - 1].img = upd'.md5[i].img
              /\ flash'[s + i - 1].pos = upd'.md5[i].pos
  <2>1. PICK a \in Int : a = s + i - 1 /\ 0 <= a /\ a < c + L
    BY <1>10, <1>11
  <2>2. a \in 0 .. FlashEnd - 1
    BY <1>10, <2>1, Geometry
  <2>3. CASE i <= M
    <3>1. a \notin c .. c + L - 1
      BY <1>11, <2>1, <2>3
    <3>2. upd'.md5[i] = upd.md5[i]
      BY <1>4, <1>6, <1>7, <2>3, ConcatProperties
    <3>3. flash[a].img = upd.md5[i].img /\ flash[a].pos = upd.md5[i].pos
      BY <1>11, <2>1, <2>3 DEF Is
    <3> QED BY <1>15, <2>1, <2>2, <3>1, <3>2, <3>3
  <2>4. CASE i > M
    <3>1. PICK j \in 1 .. L : j = i - M
      BY <2>4
    <3>2. a \in c .. c + L - 1 /\ a - c + 1 = j
      BY <1>10, <1>11, <2>1, <2>4, <3>1
    <3>3. upd'.md5[i] = upd.buf[j]
      BY <1>4, <1>6, <1>7, <2>4, <3>1, ConcatProperties
    <3>4. Programmed[j].img = upd.buf[j].img /\ Programmed[j].pos = upd.buf[j].pos
      BY <1>1, <1>7, ProgrammedType
    <3> HIDE DEF Programmed
    <3> QED BY <1>15, <2>1, <2>2, <3>2, <3>3, <3>4
  <2> QED BY <2>3, <2>4
<1>18. (c + L) % SectorSize # 0 => \A a \in Sector(c + L) : a >= c + L => flash'[a] = Erased
  <2> SUFFICES ASSUME (c + L) % SectorSize # 0, NEW a \in Sector(c + L), a >= c + L
               PROVE  flash'[a] = Erased
    OBVIOUS
  <2>1. a \in Sector(c) /\ a \in 0 .. FlashEnd - 1
    BY <1>13 DEF Sector
  <2>2. a \notin c .. c + L - 1 /\ a >= c
    BY <2>1, Geometry
  <2> QED BY <1>11, <1>15, <2>1, <2>2
<1>19. pc' # "verify" => ((c + L) - s) % b = 0 \/ (c + L) - s = z
  <2>1. CASE L = b
    <3>1. (c - s) % b = 0
      BY <1>9, <1>10, <1>11, <2>1
    <3>2. ((c - s) + b) % b = 0
      BY <1>9, <1>10, <3>1
    <3> QED BY <1>9, <1>10, <2>1, <3>2
  <2>2. CASE L = z - (c - s)
    BY <1>10, <2>2
  <2> QED BY <1>5, <1>11, <2>1, <2>2
<1>20. upd'.cur = c + L /\ upd'.start = s /\ upd'.size = z /\ upd'.bufSize = b
  BY <1>4, <1>7, <1>8
<1> QED BY <1>5, <1>16, <1>17, <1>18, <1>19, <1>20 DEF DataInv, Is, Sector

LEMMA DataEnd == ASSUME OtaInv, DataInv, EndCall \/ EndVerify \/ EndStage PROVE DataInv'
<1>1. upd \in UpdType
  BY DEF OtaInv, OtaTypeOK
<1>2. ASSUME NEW u \in UpdType, NEW v \in {"true", "false"}, u.size = 0, upd' = Return(u, v)
      PROVE  DataInv'
  BY <1>2, ReturnFields, DataDropped
<1>3. ASSUME NEW v \in {"true", "false"}, upd' = Return(Reset(upd), v)
      PROVE  DataInv'
  BY <1>1, <1>2, <1>3, ResetFields
<1>4. ASSUME NEW e \in Errors, upd' = Return(SetError(upd, e), "false")
      PROVE  DataInv'
  BY <1>1, <1>2, <1>4, SetErrorFields
<1>5. {"no data", "sign", "md5", "magic"} \subseteq Errors
  BY DEF Errors
<1>6. CASE EndStage
  BY <1>3, <1>6 DEF EndStage
<1>7. CASE EndVerify
  <2>1. CASE pc' = "command"
    BY <2>1, DataDropped
  <2>2. CASE pc' # "command"
    <3>1. \E e \in {"sign", "md5", "magic"} : upd' = Return(SetError(upd, e), "false")
      BY <1>7, <2>2 DEF EndVerify
    <3> QED BY <1>4, <1>5, <3>1
  <2> QED BY <2>1, <2>2
<1>8. CASE EndCall
  <2>1. UNCHANGED flash /\ pc = "idle"
    BY <1>8 DEF EndCall
  <2>2. ASSUME NEW even \in BOOLEAN, upd' = [upd EXCEPT !.even = even, !.back = "verify"],
               pc' = IF even /\ upd.buf # <<>> THEN "flush" ELSE "verify"
        PROVE  DataInv'
    <3>1. /\ upd'.size = upd.size /\ upd'.start = upd.start /\ upd'.cur = upd.cur
          /\ upd'.bufSize = upd.bufSize /\ upd'.md5 = upd.md5 /\ upd'.back = "verify"
      BY <1>1, <2>2 DEF UpdType
    <3>2. pc' \in {"flush", "verify"}
      BY <2>2
    <3> QED BY <2>1, <3>1, <3>2, DataQuiet
  <2> QED BY <1>3, <1>4, <1>5, <1>8, <2>2 DEF EndCall
<1> QED BY <1>6, <1>7, <1>8

LEMMA DataNext == ASSUME OtaInv, OtaInv', DataInv, [Next]_vars PROVE DataInv'
<1>1. CASE BeginCall \/ SetMD5 \/ WriteCall \/ WriteAvailable \/ WriteFill
             \/ StreamCall \/ StreamRead \/ StreamTimeout \/ StreamDone
  BY <1>1, DataBegin, DataWrite
<1>2. CASE FlushErase \/ FlushProgram
  BY <1>2, DataErase, DataProgram
<1>3. CASE EndCall \/ EndVerify \/ EndStage
  BY <1>3, DataEnd
<1>4. CASE pc' \in Boot
  BY <1>4, DataDropped DEF Boot, Sketch
<1>5. CASE Unstage \/ UNCHANGED vars
  BY <1>5 DEF Unstage, vars, DataInv, Is, Sector
<1>6. CASE BootStep
  <2>1. upd = NoUpdate /\ UNCHANGED upd
    BY <1>6 DEF BootStep, EbootNext, MainRead, CopyRead, CopyErase, CopyWrite, CopyFails,
                CopyDone, MainClear, LoadApp, LoadFails, OtaInv, UpdInv, Boot
  <2> QED BY <2>1, DataDropped DEF NoUpdate
<1>7. CASE Restart \/ ChipReset \/ PowerCut
  BY <1>4, <1>7 DEF Restart, ChipReset, PowerCut, Boot
<1> QED BY <1>1, <1>2, <1>3, <1>5, <1>6, <1>7 DEF Next, UpdNext

-----------------------------------------------------------------------------
(* What end() stages is a whole image, and stays one. *)

LEMMA NoFailureNext == ASSUME OtaInv, OtaInv', NoFailure, [Next]_vars PROVE NoFailure'
<1> SUFFICES ASSUME ~FlashFails, pc' = "verify", upd'.size = 0 PROVE FALSE
  BY DEF NoFailure
<1>1. upd \in UpdType /\ upd.size \in Nat
  BY DEF OtaInv, OtaTypeOK, UpdType
<1>2. CASE EndCall
  <2>1. PICK even \in BOOLEAN : isRunning /\ upd' = [upd EXCEPT !.even = even, !.back = "verify"]
    BY <1>2 DEF EndCall
  <2> QED BY <1>1, <2>1 DEF isRunning, UpdType
<1>3. CASE FlushProgram
  <2>1. upd' = [upd EXCEPT !.md5 = Md5After, !.cur = @ + Len(upd.buf), !.buf = <<>>]
    BY <1>3 DEF FlushProgram
  <2>2. upd.size > 0
    BY <1>3 DEF FlushProgram, OtaInv, UpdInv, Writing
  <2> QED BY <1>1, <2>1, <2>2 DEF UpdType
<1>4. CASE UNCHANGED <<pc, upd>>
  BY <1>4 DEF NoFailure
<1>5. CASE UpdNext
  BY <1>2, <1>3, <1>4, <1>5 DEF UpdNext, BeginCall, SetMD5, WriteCall, WriteAvailable, WriteFill,
       StreamCall, StreamRead, StreamTimeout, StreamDone, FlushErase, EndVerify, EndStage, Restart,
       Unstage
<1>6. CASE BootStep \/ ChipReset \/ PowerCut
  BY <1>6 DEF BootStep, EbootNext, MainRead, CopyRead, CopyErase, CopyWrite, CopyFails,
              CopyDone, MainClear, LoadApp, LoadFails, ChipReset, PowerCut
<1> QED BY <1>4, <1>5, <1>6 DEF Next, vars

LEMMA StagedVerify ==
    ASSUME FlashFails => Signed, OtaInv, DataInv, NoFailure, EndVerify, pc' = "command"
    PROVE  StagedInv'
<1>1. /\ pc = "verify" /\ pc \in Sketch /\ pc # "command" /\ UNCHANGED flash
      /\ Checked(EndSize) /\ rtc' = Command(EndSize)
  BY DEF EndVerify, EndSize, Sketch
<1>2. /\ upd \in UpdType /\ upd.start \in Nat /\ upd.cur \in Nat /\ upd.size \in Nat
      /\ flash \in [0 .. FlashEnd - 1 -> Cells]
      /\ EndSize \in Nat /\ EndSize = upd.cur - upd.start /\ EndSize <= upd.size
      /\ upd.start + RoundUp(upd.size) <= FlashEnd
  BY <1>1, VerifyFacts
<1>3. PICK n \in Nat : n = EndSize
  BY <1>2
<1>4. ASSUME NEW m \in Images, n = Size[m], upd.size > 0,
             \A i \in 0 .. n - 1 : Is(upd.start + i, m, i),
             rtc'.src = upd.start, rtc'.size = BinSize(m), rtc'.img = m
      PROVE  StagedInv'
  <2>1. Reserved /\ running \in Images
    BY <1>1, <1>4 DEF OtaInv, OtaTypeOK, UpdInv
  <2>2. upd.start % SectorSize = 0 /\ SectorSize <= upd.start
    <3>1. BinSize(running) \in Nat /\ BinSize(running) > 0
      BY <2>1, Geometry
    <3>2. SectorSize <= RoundUp(BinSize(running)) /\ RoundUp(BinSize(running)) \in Nat
      BY <3>1, RoundUpFacts
    <3> QED BY <1>2, <2>1, <3>2, Geometry DEF Reserved
  <2>3. Holds(flash', rtc'.src, m)
    <3>1. upd.start + n <= FlashEnd
      <4>1. RoundUp(upd.size) \in Nat /\ upd.size <= RoundUp(upd.size)
        BY <1>2, RoundUpFacts
      <4> QED BY <1>2, <1>3, <4>1, Geometry
    <3>2. BinSize(m) \in Nat /\ BinSize(m) <= n
      BY <1>4, Geometry
    <3>3. \A i \in 0 .. BinSize(m) - 1 : i \in 0 .. n - 1 /\ upd.start + i \in 0 .. FlashEnd - 1
      BY <1>2, <3>1, <3>2, Geometry, SMTT(30)
    <3> QED BY <1>1, <1>2, <1>4, <3>3 DEF Holds, Is
  <2> QED BY <1>4, <2>2, <2>3 DEF StagedInv
<1>5. CASE Signed
  <2>1. PICK m \in Images : /\ n = Size[m]
                            /\ \A i \in 0 .. n - 1 : flash[upd.start + i] = Cell(m, i)
    BY <1>1, <1>3, <1>5 DEF Checked, SignatureOk
  <2>2. n >= 2 /\ BinSize(m) = n - 1
    BY <1>5, <2>1, Geometry DEF BinSize
  <2>3. \A i \in 0 .. n - 1 : Is(upd.start + i, m, i)
    <3> TAKE i \in 0 .. n - 1
    <3>1. flash[upd.start + i] = Cell(m, i)
      BY <2>1
    <3>2. Cell(m, i).img = m /\ Cell(m, i).pos = i
      BY DEF Cell
    <3> QED BY <3>1, <3>2 DEF Is
  <2>4. flash[upd.start].img = m
    <3>1. 0 \in 0 .. n - 1 /\ upd.start + 0 = upd.start
      BY <1>2, <2>2
    <3> QED BY <2>3, <3>1 DEF Is
  <2>5. rtc'.src = upd.start /\ rtc'.size = BinSize(m) /\ rtc'.img = m
    BY <1>1, <1>3, <1>5, <2>2, <2>4 DEF Command
  <2>6. upd.size > 0
    BY <1>2, <1>3, <2>2
  <2> QED BY <1>4, <2>1, <2>3, <2>5, <2>6
<1>6. CASE ~Signed
  <2>1. CASE upd.target = "none"
    <3>1. rtc'.img = "unchecked"
      BY <1>1, <1>6, <2>1 DEF Command
    <3> QED BY <3>1 DEF StagedInv
  <2>2. CASE upd.target # "none"
    <3>1. PICK m \in Images : m = upd.target
      BY <1>2, <2>2 DEF UpdType
    <3>2. upd.md5 = [i \in 1 .. Size[m] |-> Cell(m, i - 1)]
      BY <1>1, <1>6, <2>2, <3>1 DEF Checked, Md5Is
    <3>3. upd.size > 0
      BY <1>1, <1>2, <1>6 DEF NoFailure
    <3>4. /\ Len(upd.md5) = upd.cur - upd.start
          /\ \A i \in 1 .. Len(upd.md5) : Is(upd.start + i - 1, upd.md5[i].img, upd.md5[i].pos)
      BY <1>1, <1>6, <3>3 DEF DataInv
    <3>5. Size[m] \in Nat /\ Len(upd.md5) = Size[m]
      BY <3>2, Geometry
    <3>6. n = Size[m] /\ BinSize(m) = n
      BY <1>2, <1>3, <1>6, <3>4, <3>5 DEF BinSize
    <3>7. ASSUME NEW i \in 0 .. n - 1
          PROVE  Is(upd.start + i, m, i)
      <4>1. PICK j \in 1 .. n : j = i + 1
        OBVIOUS
      <4>2. upd.start + j - 1 = upd.start + i /\ j - 1 = i
        BY <1>2, <4>1
      <4>3. upd.md5[j] = Cell(m, i)
        BY <3>2, <3>6, <4>2
      <4>4. Is(upd.start + j - 1, upd.md5[j].img, upd.md5[j].pos)
        BY <3>4, <3>5, <3>6
      <4> QED BY <4>2, <4>3, <4>4 DEF Is, Cell
    <3>8. rtc'.src = upd.start /\ rtc'.size = BinSize(m) /\ rtc'.img = m
      BY <1>1, <1>3, <1>6, <2>2, <3>1, <3>6 DEF Command
    <3> QED BY <1>4, <3>3, <3>6, <3>7, <3>8
  <2> QED BY <2>1, <2>2
<1> QED BY <1>5, <1>6

LEMMA StagedNone == ASSUME ~rtc'.valid, pc' # "command" PROVE StagedInv'
  BY DEF StagedInv

LEMMA StagedKept ==
    ASSUME StagedInv, rtc.valid \/ pc = "command",
           rtc'.src = rtc.src, rtc'.size = rtc.size, rtc'.img = rtc.img,
           Apart \/ pc' \in Sketch \/ (pc' = "boot" /\ resets' = 0) =>
              /\ UNCHANGED flash
              /\ Apart \/ pc \in Sketch \/ (pc = "boot" /\ resets = 0)
    PROVE  StagedInv'
<1>1. Apart' <=> Apart
  BY DEF Apart
<1> QED BY <1>1 DEF StagedInv, Holds

\* The copy erases and writes below its own source when the two are apart.
LEMMA StagedCopy ==
    ASSUME OtaInv, StagedInv, CopyErase \/ CopyWrite
    PROVE  StagedInv'
<1>1. /\ pc \in {"erase", "burn"} /\ pc' \in {"copy", "burn"} /\ UNCHANGED rtc
      /\ flash' = EraseSector(flash, cp.daddr) \/ flash' = FlashWrite(flash, cp.daddr, cp.buf)
  BY DEF CopyErase, CopyWrite
<1>2. /\ cp.daddr \in Nat /\ cp.left \in Nat /\ rtc.src \in Nat /\ rtc.size \in Nat
      /\ flash \in [0 .. FlashEnd - 1 -> Cells] /\ rtc.valid
      /\ cp.daddr + cp.left = RoundUp(rtc.size)
      /\ cp.daddr % SectorSize = 0
      /\ cp.left > 0 => SectorSize <= cp.left
  BY <1>1, CopyFacts
<1>3. cp.left > 0 /\ Len(cp.buf) = SectorSize
  BY <1>1 DEF OtaInv, CopyInv
<1>4. cp.daddr + SectorSize <= RoundUp(rtc.size)
  BY <1>2, <1>3, Geometry
<1>5. \A a \in 0 .. FlashEnd - 1 : a >= cp.daddr + SectorSize => flash'[a] = flash[a]
  <2>1. \A a \in 0 .. FlashEnd - 1 : a >= cp.daddr + SectorSize =>
           a \notin Sector(cp.daddr) /\ a \notin cp.daddr .. cp.daddr + Len(cp.buf) - 1
    BY <1>2, <1>3, SectorFacts, Geometry
  <2> QED BY <1>1, <1>2, <2>1 DEF EraseSector, FlashWrite
<1>6. DOMAIN flash' = 0 .. FlashEnd - 1
  BY <1>1, <1>2 DEF EraseSector, FlashWrite
<1>7. ASSUME rtc.img # "unchecked", Apart
      PROVE  Holds(flash', rtc.src, rtc.img)
  <2>1. Holds(flash, rtc.src, rtc.img) /\ rtc.img \in Images
    BY <1>2, <1>7 DEF StagedInv
  <2>2. ASSUME NEW i \in 0 .. BinSize(rtc.img) - 1
        PROVE  rtc.src + i \in 0 .. FlashEnd - 1 /\ flash'[rtc.src + i] = flash[rtc.src + i]
    <3>1. rtc.src + i \in 0 .. FlashEnd - 1
      BY <1>2, <2>1 DEF Holds
    <3>2. BinSize(rtc.img) \in Nat
      BY <2>1, Geometry
    <3>3. RoundUp(rtc.size) \in Nat /\ RoundUp(rtc.size) <= rtc.src
      BY <1>2, <1>7, RoundUpFacts DEF Apart
    <3>4. rtc.src + i >= cp.daddr + SectorSize
      BY <1>2, <1>4, <3>2, <3>3, Geometry, SMTT(30)
    <3> QED BY <1>5, <3>1, <3>4
  <2> QED BY <1>6, <2>1, <2>2 DEF Holds
<1>8. pc' \notin Sketch /\ pc' # "boot"
  BY <1>1 DEF Sketch
<1>9. Apart' <=> Apart
  BY <1>1 DEF Apart
<1> QED BY <1>1, <1>2, <1>7, <1>8, <1>9 DEF StagedInv

LEMMA StagedNext ==
    ASSUME FlashFails => Signed, OtaInv, OtaInv', DataInv, NoFailure, StagedInv, [Next]_vars
    PROVE  StagedInv'
<1>1. /\ rtc \in RtcType /\ rtc' \in RtcType
      /\ rtc.valid /\ pc \in Sketch => pc = "idle" /\ upd.size = 0
      /\ rtc'.valid /\ pc' \in Sketch => pc' = "idle"
  BY DEF OtaInv, OtaTypeOK, CommandInv
<1>2. CASE EndVerify
  <2>1. pc' = "command" \/ (pc' = "idle" /\ UNCHANGED rtc)
    BY <1>2 DEF EndVerify
  <2>2. ~rtc.valid
    BY <1>1, <1>2 DEF EndVerify, Sketch
  <2> QED BY <1>2, <2>1, <2>2, StagedVerify, StagedNone
<1>3. CASE EndStage
  <2>1. pc = "command" /\ rtc' = [rtc EXCEPT !.valid = TRUE] /\ UNCHANGED flash
    BY <1>3 DEF EndStage
  <2>2. rtc'.src = rtc.src /\ rtc'.size = rtc.size /\ rtc'.img = rtc.img
    BY <1>1, <2>1 DEF RtcType
  <2> QED BY <2>1, <2>2, StagedKept DEF Sketch
<1>4. ASSUME pc \in Sketch, pc' \in Sketch, pc' # "command", UNCHANGED <<flash, rtc>>
      PROVE  StagedInv'
  BY <1>4, StagedNone, StagedKept
<1>5. CASE BeginCall \/ SetMD5 \/ WriteCall \/ WriteAvailable \/ WriteFill
             \/ StreamCall \/ StreamRead \/ StreamTimeout \/ StreamDone \/ EndCall
  BY <1>4, <1>5 DEF BeginCall, SetMD5, WriteCall, WriteAvailable, WriteFill, StreamCall, StreamRead,
                    StreamTimeout, StreamDone, EndCall, Sketch
<1>6. CASE FlushErase \/ FlushProgram
  <2>1. ~rtc.valid /\ UNCHANGED rtc
    BY <1>1, <1>6 DEF FlushErase, FlushProgram, Sketch
  <2>2. pc' # "command"
    <3>1. upd.back \in {"idle", "write", "stream", "verify"}
      BY DEF OtaInv, OtaTypeOK, UpdType
    <3> QED BY <1>6, <3>1 DEF FlushErase, FlushProgram, AfterFailure, AfterSuccess
  <2> QED BY <2>1, <2>2, StagedNone
<1>7. CASE Restart
  BY <1>7, StagedKept DEF Restart, Sketch
<1>8. ASSUME rtc' = [rtc EXCEPT !.valid = FALSE], pc' # "command"
      PROVE  StagedInv'
  <2>1. ~rtc'.valid
    BY <1>1, <1>8 DEF RtcType
  <2> QED BY <1>8, <2>1, StagedNone
<1>9. CASE Unstage \/ PowerCut \/ MainClear
  BY <1>8, <1>9 DEF Unstage, PowerCut, MainClear
<1>10. CASE ChipReset
  <2>1. pc' = "boot" /\ resets' # 0 /\ UNCHANGED <<flash, rtc>>
    BY <1>10 DEF ChipReset, OtaInv, OtaTypeOK
  <2>2. CASE rtc.valid
    BY <2>1, <2>2, StagedKept DEF Sketch
  <2>3. CASE ~rtc.valid
    BY <2>1, <2>3, StagedNone
  <2> QED BY <2>2, <2>3
<1>11. CASE CopyErase \/ CopyWrite
  BY <1>11, StagedCopy
<1>12. CASE MainRead \/ CopyRead \/ CopyFails \/ CopyDone
  <2>1. UNCHANGED <<rtc, flash>> /\ pc' \in {"copy", "clear", "load", "erase"}
    BY <1>12 DEF MainRead, ClearedOnRead, CopyRead, CopyFails, CopyDone
  <2>2. CASE rtc.valid
    BY <2>1, <2>2, StagedKept DEF Sketch
  <2>3. CASE ~rtc.valid
    BY <2>1, <2>3, StagedNone
  <2> QED BY <2>2, <2>3
<1>13. CASE LoadApp \/ LoadFails
  <2>1. UNCHANGED rtc /\ pc' # "command" /\ ~rtc.valid
    BY <1>13 DEF LoadApp, LoadFails, OtaInv, CommandInv
  <2> QED BY <2>1, StagedNone
<1>14. CASE UNCHANGED vars
  BY <1>14 DEF vars, StagedInv, Apart, Holds
<1> QED BY <1>2, <1>3, <1>5, <1>6, <1>7, <1>9, <1>10, <1>11, <1>12, <1>13, <1>14
        DEF Next, UpdNext, BootStep, EbootNext

StageInv == OtaInv /\ DataInv /\ NoFailure /\ StagedInv

LEMMA StageInit == Init => StageInv
<1> SUFFICES ASSUME Init PROVE StageInv
  OBVIOUS
<1>1. OtaInv /\ pc = "idle" /\ upd.size = 0 /\ ~rtc.valid
  BY InitInv DEF Init, SharedInit, UpdInit, NoUpdate, NoCommand
<1> QED BY <1>1 DEF StageInv, DataInv, NoFailure, StagedInv

LEMMA StageNext == ASSUME FlashFails => Signed, StageInv, [Next]_vars PROVE StageInv'
  BY NextInv, DataNext, NoFailureNext, StagedNext DEF StageInv

\* end() stages only what it checked: from then on until the bootloader clears
\* the command, it points to that image, whole and at the right length.  With
\* an MD5 instead of a signature that needs a flash that does not fail: end()
\* ignores the result of its last _writeBuffer().
THEOREM StagedStaysWhole == (FlashFails => Signed) => (Spec => []StagedWhole)
<1> SUFFICES ASSUME FlashFails => Signed PROVE Spec => []StagedWhole
  OBVIOUS
<1>1. StageInv => StagedWhole
  <2> SUFFICES ASSUME StageInv PROVE StagedWhole
    OBVIOUS
  <2>1. TypeOK
    BY OtaInvTypeOK DEF StageInv
  <2> QED BY <2>1 DEF StageInv, StagedInv, StagedWhole
<1>2. StageInv /\ [Next]_vars => StageInv'
  BY StageNext
<1> QED BY <1>1, <1>2, StageInit, PTL DEF Spec

-----------------------------------------------------------------------------
(* The bootloader ends with a whole sketch. *)

\* What is exempt stays so until the next update is staged.
LEMMA ExemptKept ==
    ASSUME OtaInv, rtc'.src = rtc.src, rtc'.size = rtc.size, rtc'.img = rtc.img,
           UNCHANGED resets \/ resets' = resets + 1
    PROVE  Exempt => Exempt'
<1>1. resets \in Nat /\ (Apart' <=> Apart)
  BY OtaAssumption DEF OtaInv, OtaTypeOK, Apart
<1> QED BY <1>1 DEF Exempt

LEMMA BootSketch ==
    ASSUME pc' \in Sketch
    PROVE  BootInv'
  BY DEF BootInv, Sketch

\* While it copies what was staged.
LEMMA BootFacts ==
    ASSUME OtaInv, StagedInv, BootInv, ~Exempt, pc \in {"copy", "erase", "burn"}
    PROVE  /\ rtc.img \in Images /\ rtc.size = BinSize(rtc.img) /\ rtc.size \in Nat
           /\ SectorSize <= rtc.src /\ rtc.size <= FlashEnd
           /\ rtc.src + RoundUp(rtc.size) <= FlashEnd
           /\ rtc.size <= RoundUp(rtc.size) /\ RoundUp(rtc.size) \in Nat
           /\ \A i \in 0 .. rtc.size - 1 :
                /\ i < cp.daddr => Is(i, rtc.img, i)
                /\ Apart \/ i >= cp.daddr => Is(rtc.src + i, rtc.img, i)
<1>1. rtc.valid /\ rtc.img # "unchecked" /\ rtc.size \in Nat
  BY CopyFacts DEF Exempt
<1>2. rtc.img \in Images /\ rtc.size = BinSize(rtc.img) /\ SectorSize <= rtc.src
  BY <1>1 DEF StagedInv
<1>3. rtc.size <= RoundUp(rtc.size) /\ RoundUp(rtc.size) \in Nat
  BY <1>1, RoundUpFacts
<1>4. rtc.size <= FlashEnd
  BY <1>1, <1>2, Geometry
<1> QED BY <1>1, <1>2, <1>3, <1>4 DEF BootInv, OtaInv, CommandInv

LEMMA BootMainRead ==
    ASSUME OtaInv, OtaInv', StagedInv, BootInv, MainRead, UNCHANGED resets
    PROVE  BootInv'
<1>1. pc = "boot" /\ UNCHANGED <<rtc, flash>> /\ rtc \in RtcType
  BY DEF MainRead, ClearedOnRead, OtaInv, OtaTypeOK
<1> SUFFICES ASSUME ~Exempt' PROVE BootInv'
  BY DEF BootInv
<1>2. ~Exempt /\ (Apart' <=> Apart)
  BY <1>1, ExemptKept DEF Apart
<1>3. CASE ~rtc.valid
  <2>1. pc' = "load"
    BY <1>3 DEF MainRead
  <2>2. SomeSketch
    BY <1>1, <1>2, <1>3 DEF BootInv
  <2>3. SomeSketch'
    BY <1>1, <2>2 DEF SomeSketch, Holds
  <2> QED BY <2>1, <2>3 DEF BootInv
<1>4. CASE rtc.valid
  <2>1. rtc.img # "unchecked" /\ (Apart \/ resets = 0)
    <3>1. resets \in Nat
      BY OtaAssumption DEF OtaInv, OtaTypeOK
    <3> QED BY <1>2, <3>1 DEF Exempt
  <2>2. /\ rtc.src % SectorSize = 0 /\ rtc.img \in Images /\ Holds(flash, rtc.src, rtc.img)
    BY <1>1, <1>4, <2>1 DEF StagedInv
  <2>3. cp' = [NoCopy EXCEPT !.saddr = rtc.src, !.left = CopyLength(rtc.size), !.res = 0]
    BY <1>4, <2>2 DEF MainRead
  <2>4. cp'.daddr = 0 /\ cp'.res = 0
    BY <2>3 DEF NoCopy
  <2>5. pc' = "copy"
    BY <1>4, <2>4 DEF MainRead
  <2>6. BinSize(rtc.img) \in Nat
    BY <2>2, Geometry
  <2>7. \A i \in 0 .. BinSize(rtc.img) - 1 : ~(i < 0) /\ Is(rtc.src + i, rtc.img, i)
    BY <2>2, <2>6 DEF Holds, Is
  <2> QED BY <1>1, <2>4, <2>5, <2>7 DEF BootInv, Is
<1> QED BY <1>3, <1>4

LEMMA BootCopyRead ==
    ASSUME OtaInv, OtaInv', StagedInv, BootInv, CopyRead, UNCHANGED resets
    PROVE  BootInv'
<1>1. pc = "copy" /\ cp.left > 0 /\ UNCHANGED <<rtc, flash>>
  BY DEF CopyRead
<1> SUFFICES ASSUME ~Exempt' PROVE BootInv'
  BY DEF BootInv
<1>2. ~Exempt /\ (Apart' <=> Apart)
  BY <1>1, ExemptKept DEF Apart
<1>3. /\ rtc.img \in Images /\ rtc.size = BinSize(rtc.img) /\ rtc.size \in Nat
      /\ \A i \in 0 .. rtc.size - 1 :
                /\ i < cp.daddr => Is(i, rtc.img, i)
                /\ Apart \/ i >= cp.daddr => Is(rtc.src + i, rtc.img, i)
  BY <1>1, <1>2, BootFacts
<1>4. /\ cp \in CpType /\ cp.saddr \in Nat /\ cp.daddr \in Nat /\ rtc.src \in Nat
      /\ cp.saddr = rtc.src + cp.daddr /\ SectorSize <= cp.left
  BY <1>1, CopyFacts
<1>5. CASE Skips(SectorAt(cp.saddr))
  <2>1. cp.daddr = 0 /\ SectorAt(cp.saddr) = SectorAt(0) /\ cp' = Advance(cp) /\ pc' = "copy"
    BY <1>5 DEF Skips, CopyRead
  <2>2. cp'.daddr = SectorSize
    BY <1>4, <2>1, AdvanceFields, Geometry
  <2>3. ASSUME NEW i \in 0 .. rtc.size - 1, i < SectorSize
        PROVE  Is(i, rtc.img, i)
    <3>1. PICK j \in 1 .. SectorSize : j = i + 1
      BY <1>3, <2>3, Geometry
    <3>2. SectorAt(cp.saddr)[j] = flash[rtc.src + i] /\ SectorAt(0)[j] = flash[i]
      <4>1. cp.saddr + j - 1 = rtc.src + i /\ 0 + j - 1 = i
        BY <1>3, <1>4, <2>1, <3>1
      <4> QED BY <4>1 DEF SectorAt
    <3>3. Is(rtc.src + i, rtc.img, i)
      BY <1>3, <2>1
    <3> QED BY <2>1, <3>2, <3>3 DEF Is
  <2>4. ASSUME NEW i \in 0 .. rtc.size - 1
        PROVE  /\ i < cp'.daddr => Is(i, rtc.img, i)
               /\ Is(rtc.src + i, rtc.img, i)
    BY <1>3, <2>1, <2>2, <2>3
  <2> QED BY <1>1, <1>3, <2>1, <2>4 DEF BootInv, Is
<1>6. CASE ~Skips(SectorAt(cp.saddr))
  <2>1. cp' = [cp EXCEPT !.buf = SectorAt(cp.saddr)] /\ pc' = "erase"
    BY <1>6 DEF CopyRead
  <2>2. cp'.daddr = cp.daddr /\ cp'.buf = SectorAt(cp.saddr)
    BY <1>4, <2>1 DEF CpType
  <2>3. ASSUME NEW j \in 1 .. SectorSize, cp.daddr + j - 1 < rtc.size
        PROVE  cp'.buf[j].img = rtc.img /\ cp'.buf[j].pos = cp.daddr + j - 1
    <3>1. PICK i \in 0 .. rtc.size - 1 : i = cp.daddr + j - 1 /\ i >= cp.daddr
      BY <1>3, <1>4, <2>3, Geometry
    <3>2. cp.saddr + j - 1 = rtc.src + i
      BY <1>4, <3>1, Geometry
    <3>3. cp'.buf[j] = flash[rtc.src + i]
      BY <2>2, <3>2 DEF SectorAt
    <3>4. Is(rtc.src + i, rtc.img, i)
      BY <1>3, <3>1
    <3> QED BY <3>1, <3>3, <3>4 DEF Is
  <2> QED BY <1>1, <1>2, <1>3, <2>1, <2>2, <2>3 DEF BootInv, Is
<1> QED BY <1>5, <1>6

\* The sector that is erased and written holds no cell of the source that is
\* still to be read, and none at all when the two are apart.
LEMMA CopyReach ==
    ASSUME OtaInv, StagedInv, BootInv, ~Exempt, pc \in {"erase", "burn"}
    PROVE  /\ cp.daddr + SectorSize <= FlashEnd
           /\ \A i \in 0 .. rtc.size - 1 :
                /\ i \in 0 .. FlashEnd - 1 /\ rtc.src + i \in 0 .. FlashEnd - 1
                /\ Apart \/ i >= cp.daddr => rtc.src + i >= cp.daddr + SectorSize
<1>1. /\ rtc.size \in Nat /\ SectorSize <= rtc.src /\ rtc.src + RoundUp(rtc.size) <= FlashEnd
      /\ rtc.size <= RoundUp(rtc.size) /\ RoundUp(rtc.size) \in Nat
  BY BootFacts
<1>2. /\ cp.daddr \in Nat /\ cp.left \in Nat /\ rtc.src \in Nat
      /\ cp.daddr + cp.left = RoundUp(rtc.size) /\ SectorSize <= cp.left
  BY CopyFacts DEF OtaInv, CopyInv
<1>3. PICK s \in Nat, z \in Nat, r \in Nat, d \in Nat, l \in Nat :
         /\ s = rtc.src /\ z = rtc.size /\ r = RoundUp(rtc.size) /\ d = cp.daddr /\ l = cp.left
         /\ SectorSize <= s /\ s + r <= FlashEnd /\ z <= r /\ d + l = r /\ SectorSize <= l
  BY <1>1, <1>2
<1>4. d + SectorSize <= FlashEnd
  BY <1>3, Geometry
<1>5. ASSUME NEW i \in 0 .. z - 1
      PROVE  /\ i \in 0 .. FlashEnd - 1 /\ s + i \in 0 .. FlashEnd - 1
             /\ r <= s => s + i >= d + SectorSize
             /\ i >= d => s + i >= d + SectorSize
  BY <1>3, Geometry
<1> QED BY <1>3, <1>4, <1>5 DEF Apart

LEMMA BootErase ==
    ASSUME OtaInv, StagedInv, BootInv, CopyErase, UNCHANGED resets
    PROVE  BootInv'
<1>1. /\ pc = "erase" /\ pc' = "burn" /\ UNCHANGED <<rtc, cp>>
      /\ flash' = EraseSector(flash, cp.daddr)
  BY DEF CopyErase
<1> SUFFICES ASSUME ~Exempt' PROVE BootInv'
  BY DEF BootInv
<1>2. ~Exempt /\ (Apart' <=> Apart)
  BY <1>1, ExemptKept DEF Apart
<1>3. /\ rtc.img \in Images /\ rtc.size = BinSize(rtc.img) /\ rtc.size \in Nat
      /\ SectorSize <= rtc.src /\ rtc.size <= FlashEnd
      /\ rtc.src + RoundUp(rtc.size) <= FlashEnd
      /\ rtc.size <= RoundUp(rtc.size) /\ RoundUp(rtc.size) \in Nat
      /\ \A i \in 0 .. rtc.size - 1 :
                /\ i < cp.daddr => Is(i, rtc.img, i)
                /\ Apart \/ i >= cp.daddr => Is(rtc.src + i, rtc.img, i)
  BY <1>1, <1>2, BootFacts
<1>4. /\ cp.daddr \in Nat /\ cp.left \in Nat /\ rtc.src \in Nat
      /\ flash \in [0 .. FlashEnd - 1 -> Cells]
      /\ cp.daddr + cp.left = RoundUp(rtc.size) /\ cp.daddr % SectorSize = 0
      /\ cp.left > 0 => SectorSize <= cp.left
  BY <1>1, CopyFacts
<1>5. cp.left > 0
  BY <1>1 DEF OtaInv, CopyInv
<1>6. \A a \in 0 .. FlashEnd - 1 :
          a < cp.daddr \/ a >= cp.daddr + SectorSize => flash'[a] = flash[a]
  <2>1. \A a \in Sector(cp.daddr) : cp.daddr <= a /\ a < cp.daddr + SectorSize
    BY <1>4, SectorFacts
  <2>2. \A a \in 0 .. FlashEnd - 1 :
          a < cp.daddr \/ a >= cp.daddr + SectorSize => a \notin Sector(cp.daddr)
    BY <1>4, <2>1, Geometry
  <2> QED BY <1>1, <1>4, <2>2 DEF EraseSector
<1>7. ASSUME NEW i \in 0 .. rtc.size - 1
      PROVE  /\ i < cp.daddr => flash'[i] = flash[i]
             /\ Apart \/ i >= cp.daddr => flash'[rtc.src + i] = flash[rtc.src + i]
  BY <1>1, <1>2, <1>6, CopyReach
<1>8. \A a \in Sector(cp.daddr) : flash'[a] = Erased
  BY <1>1, <1>4 DEF EraseSector, Sector
<1>9. \A j \in 1 .. SectorSize : cp.daddr + j - 1 < BinSize(rtc.img) =>
          cp.buf[j].img = rtc.img /\ cp.buf[j].pos = cp.daddr + j - 1
  BY <1>1, <1>2 DEF BootInv
<1>10. \A i \in 0 .. BinSize(rtc.img) - 1 :
          /\ i < cp.daddr => flash'[i].img = rtc.img /\ flash'[i].pos = i
          /\ Apart \/ i >= cp.daddr =>
               flash'[rtc.src + i].img = rtc.img /\ flash'[rtc.src + i].pos = i
  BY <1>3, <1>7 DEF Is
<1> QED BY <1>1, <1>2, <1>8, <1>9, <1>10 DEF BootInv, Is, Sector

LEMMA BootWrite ==
    ASSUME OtaInv, StagedInv, BootInv, CopyWrite, UNCHANGED resets
    PROVE  BootInv'
<1>1. /\ pc = "burn" /\ pc' = "copy" /\ UNCHANGED rtc /\ cp' = Advance(cp)
      /\ flash' = FlashWrite(flash, cp.daddr, cp.buf)
  BY DEF CopyWrite
<1> SUFFICES ASSUME ~Exempt' PROVE BootInv'
  BY DEF BootInv
<1>2. ~Exempt /\ (Apart' <=> Apart)
  BY <1>1, ExemptKept DEF Apart
<1>3. /\ rtc.img \in Images /\ rtc.size = BinSize(rtc.img) /\ rtc.size \in Nat
      /\ SectorSize <= rtc.src /\ rtc.size <= FlashEnd
      /\ rtc.src + RoundUp(rtc.size) <= FlashEnd
      /\ rtc.size <= RoundUp(rtc.size) /\ RoundUp(rtc.size) \in Nat
      /\ \A i \in 0 .. rtc.size - 1 :
                /\ i < cp.daddr => Is(i, rtc.img, i)
                /\ Apart \/ i >= cp.daddr => Is(rtc.src + i, rtc.img, i)
  BY <1>1, <1>2, BootFacts
<1>4. /\ cp \in CpType /\ cp.daddr \in Nat /\ cp.left \in Nat /\ rtc.src \in Nat
      /\ flash \in [0 .. FlashEnd - 1 -> Cells]
      /\ cp.daddr + cp.left = RoundUp(rtc.size) /\ cp.daddr % SectorSize = 0
      /\ cp.left > 0 => SectorSize <= cp.left
  BY <1>1, CopyFacts
<1>5. cp.left > 0 /\ Len(cp.buf) = SectorSize /\ cp.buf \in Seq(Cells)
  BY <1>1, <1>4 DEF OtaInv, CopyInv, CpType
<1>6. cp'.daddr = cp.daddr + SectorSize
  BY <1>1, <1>4, <1>5, AdvanceFields
<1>7. \A a \in Sector(cp.daddr) : flash[a] = Erased
  BY <1>1, <1>2 DEF BootInv
<1>8. cp.daddr + SectorSize <= FlashEnd
  BY <1>1, <1>2, CopyReach
<1>9. \A a \in cp.daddr .. cp.daddr + SectorSize - 1 : a \in Sector(cp.daddr)
  <2>1. (cp.daddr % SectorSize) + SectorSize <= SectorSize
    BY <1>4, Geometry
  <2> QED BY <1>4, <1>8, <2>1, SectorRest, Geometry
<1>10. \A a \in 0 .. FlashEnd - 1 :
          flash'[a] = IF a \in cp.daddr .. cp.daddr + SectorSize - 1
                      THEN cp.buf[a - cp.daddr + 1] ELSE flash[a]
  <2>1. \A a \in cp.daddr .. cp.daddr + Len(cp.buf) - 1 : flash[a] = Erased
    BY <1>5, <1>7, <1>9
  <2>2. \A a \in 0 .. FlashEnd - 1 : FlashWrite(flash, cp.daddr, cp.buf)[a]
            = IF a \in cp.daddr .. cp.daddr + Len(cp.buf) - 1
              THEN cp.buf[a - cp.daddr + 1] ELSE flash[a]
    <3>1. PICK d \in Nat, b \in Seq(Cells) : d = cp.daddr /\ b = cp.buf
      BY <1>4, <1>5
    <3>2. \A a \in d .. d + Len(b) - 1 : flash[a] = Erased
      BY <2>1, <3>1
    <3>3. \A a \in 0 .. FlashEnd - 1 : FlashWrite(flash, d, b)[a]
              = IF a \in d .. d + Len(b) - 1 THEN b[a - d + 1] ELSE flash[a]
      BY <1>4, <3>2, Written, ZenonT(60)
    <3> QED BY <3>1, <3>3
  <2> QED BY <1>1, <1>5, <2>2
<1>11. ASSUME NEW i \in 0 .. rtc.size - 1, i < cp.daddr + SectorSize
       PROVE  flash'[i].img = rtc.img /\ flash'[i].pos = i
  <2>1. i \in 0 .. FlashEnd - 1
    BY <1>3, Geometry
  <2>2. CASE i < cp.daddr
    <3>1. flash'[i] = flash[i]
      BY <1>4, <1>10, <2>1, <2>2
    <3> QED BY <1>3, <2>2, <3>1 DEF Is
  <2>3. CASE i >= cp.daddr
    <3>1. PICK d \in Nat : d = cp.daddr /\ d <= i /\ i < d + SectorSize
      BY <1>4, <1>11, <2>3
    <3>2. PICK j \in 1 .. SectorSize : j = i - d + 1
      BY <2>1, <3>1, Geometry
    <3>3. d + j - 1 = i /\ i \in d .. d + SectorSize - 1
      BY <2>1, <3>1, <3>2, Geometry
    <3>4. flash'[i] = cp.buf[j]
      BY <1>10, <2>1, <3>1, <3>2, <3>3
    <3>5. cp.buf[j].img = rtc.img /\ cp.buf[j].pos = i
      <4>1. cp.daddr + j - 1 < BinSize(rtc.img)
        BY <1>3, <3>1, <3>3
      <4> QED BY <1>1, <1>2, <3>1, <3>3, <4>1 DEF BootInv
    <3> QED BY <3>4, <3>5
  <2> QED BY <1>4, <2>1, <2>2, <2>3
<1>12. ASSUME NEW i \in 0 .. rtc.size - 1, Apart \/ i >= cp.daddr + SectorSize
       PROVE  flash'[rtc.src + i].img = rtc.img /\ flash'[rtc.src + i].pos = i
  <2>1. Apart \/ i >= cp.daddr
    BY <1>4, <1>12, Geometry
  <2>2. PICK a \in 0 .. FlashEnd - 1 : a = rtc.src + i /\ a >= cp.daddr + SectorSize
    BY <1>1, <1>2, <2>1, CopyReach
  <2>3. flash'[a] = flash[a]
    <3>1. a \notin cp.daddr .. cp.daddr + SectorSize - 1
      BY <1>4, <2>2, Geometry
    <3> QED BY <1>10, <3>1
  <2>4. Is(a, rtc.img, i)
    BY <1>3, <2>1, <2>2
  <2> QED BY <2>2, <2>3, <2>4 DEF Is
<1>13. \A i \in 0 .. BinSize(rtc.img) - 1 :
          /\ i < cp'.daddr => flash'[i].img = rtc.img /\ flash'[i].pos = i
          /\ Apart \/ i >= cp'.daddr =>
               flash'[rtc.src + i].img = rtc.img /\ flash'[rtc.src + i].pos = i
  BY <1>3, <1>6, <1>11, <1>12
<1> QED BY <1>1, <1>2, <1>13 DEF BootInv, Is

LEMMA BootDone ==
    ASSUME OtaInv, StagedInv, BootInv, CopyDone, UNCHANGED resets
    PROVE  BootInv'
<1>1. pc = "copy" /\ cp.left = 0 /\ pc' = "clear" /\ UNCHANGED <<rtc, cp, flash>>
  BY DEF CopyDone
<1> SUFFICES ASSUME ~Exempt' PROVE BootInv'
  BY DEF BootInv
<1>2. ~Exempt
  BY <1>1, ExemptKept
<1>3. /\ rtc.img \in Images /\ rtc.size = BinSize(rtc.img) /\ rtc.size \in Nat
      /\ rtc.size <= FlashEnd /\ rtc.size <= RoundUp(rtc.size) /\ RoundUp(rtc.size) \in Nat
      /\ \A i \in 0 .. rtc.size - 1 : i < cp.daddr => Is(i, rtc.img, i)
  BY <1>1, <1>2, BootFacts
<1>4. /\ cp.daddr \in Nat /\ rtc.valid /\ cp.res = 0 /\ cp.daddr = RoundUp(rtc.size)
      /\ flash \in [0 .. FlashEnd - 1 -> Cells]
  BY <1>1, CopyFacts
<1>5. Holds(flash, 0, rtc.img)
  <2>1. ASSUME NEW i \in 0 .. BinSize(rtc.img) - 1
        PROVE  i < cp.daddr /\ 0 + i = i /\ i \in 0 .. FlashEnd - 1
    BY <1>3, <1>4, Geometry
  <2> QED BY <1>3, <1>4, <2>1 DEF Holds, Is
<1> QED BY <1>1, <1>4, <1>5 DEF BootInv, Holds

LEMMA BootReset ==
    ASSUME OtaInv, OtaInv', StagedInv, BootInv, PowerCuts \subseteq Sketch, ChipReset \/ PowerCut
    PROVE  BootInv'
<1>1. /\ pc' = "boot" /\ UNCHANGED flash /\ resets' = resets + 1 /\ pc # "dead"
      /\ UNCHANGED rtc \/ (rtc' = [rtc EXCEPT !.valid = FALSE] /\ pc \in Sketch)
  BY OtaAssumption DEF ChipReset, PowerCut
<1>2. rtc \in RtcType /\ rtc' \in RtcType
  BY DEF OtaInv, OtaTypeOK
<1>3. rtc'.src = rtc.src /\ rtc'.size = rtc.size /\ rtc'.img = rtc.img
  BY <1>1, <1>2 DEF RtcType
<1> SUFFICES ASSUME ~Exempt', ~rtc'.valid PROVE BootInv'
  BY <1>1 DEF BootInv
<1>4. ~Exempt
  BY <1>1, <1>3, ExemptKept
<1>5. SomeSketch
  <2>1. CASE pc \in Sketch
    <3>1. Holds(flash, 0, running) /\ running \in Images
      BY <1>1, <2>1 DEF OtaInv, OtaTypeOK, SketchWhole
    <3> QED BY <3>1 DEF SomeSketch
  <2>2. CASE pc \notin Sketch
    <3>1. ~rtc.valid
      BY <1>1, <2>2
    <3>2. pc \in {"boot", "load"}
      <4>1. pc \in Boot
        BY <1>1, <2>2 DEF OtaInv, OtaTypeOK
      <4>2. pc \notin {"copy", "erase", "burn"}
        BY <3>1 DEF OtaInv, CopyInv
      <4>3. pc # "clear"
        BY <1>4, <3>1 DEF BootInv
      <4> QED BY <4>1, <4>2, <4>3 DEF Boot
    <3> QED BY <1>4, <3>1, <3>2 DEF BootInv
  <2> QED BY <2>1, <2>2
<1>6. SomeSketch'
  BY <1>1, <1>5 DEF SomeSketch, Holds
<1> QED BY <1>1, <1>6 DEF BootInv

LEMMA BootMain ==
    ASSUME OtaInv, OtaInv', StagedInv, BootInv, ~BootFails,
           MainClear \/ LoadApp \/ LoadFails \/ CopyFails, UNCHANGED resets
    PROVE  BootInv'
<1>1. rtc \in RtcType /\ UNCHANGED flash
  BY DEF MainClear, LoadApp, LoadFails, CopyFails, OtaInv, OtaTypeOK
<1>2. CASE MainClear
  <2>1. pc = "clear" /\ rtc' = [rtc EXCEPT !.valid = FALSE]
        /\ pc' = IF cp.res = 0 THEN "load" ELSE "boot"
    BY <1>2 DEF MainClear
  <2>2. rtc'.src = rtc.src /\ rtc'.size = rtc.size /\ rtc'.img = rtc.img
    BY <1>1, <2>1 DEF RtcType
  <2> SUFFICES ASSUME ~Exempt' PROVE BootInv'
    BY DEF BootInv
  <2>3. ~Exempt
    BY <2>2, ExemptKept
  <2>4. rtc.valid /\ Holds(flash, 0, rtc.img) /\ rtc.img # "unchecked"
    BY <2>1, <2>3 DEF BootInv, Exempt
  <2>5. rtc.img \in Images
    BY <2>4 DEF StagedInv
  <2>6. SomeSketch'
    BY <1>1, <2>4, <2>5 DEF SomeSketch, Holds
  <2> QED BY <2>1, <2>6 DEF BootInv
<1>3. CASE LoadApp
  <2>1. pc = "load" /\ UNCHANGED rtc
    BY <1>3 DEF LoadApp
  <2> SUFFICES ASSUME ~Exempt' PROVE BootInv'
    BY DEF BootInv
  <2>2. ~Exempt
    BY <2>1, ExemptKept
  <2>3. SomeSketch
    BY <2>1, <2>2 DEF BootInv
  <2>4. pc' = "idle"
    BY <1>3, <2>3 DEF LoadApp, SomeSketch
  <2> QED BY <2>4, BootSketch DEF Sketch
<1> QED BY <1>2, <1>3 DEF LoadFails, CopyFails

LEMMA BootNext ==
    ASSUME OtaInv, OtaInv', StagedInv, BootInv, ~BootFails, PowerCuts \subseteq Sketch, [Next]_vars
    PROVE  BootInv'
<1>1. CASE UpdNext /\ UNCHANGED <<cp, resets>>
  <2>1. CASE pc' \in Sketch
    BY <2>1, BootSketch
  <2>2. CASE Restart
    BY <2>2 DEF Restart, BootInv
  <2>3. CASE UpdNext /\ ~Restart
    <3>1. upd.back \in {"idle", "write", "stream", "verify"}
      BY DEF OtaInv, OtaTypeOK, UpdType
    <3>2. pc' \in Sketch
      BY <2>3, <3>1 DEF UpdNext, BeginCall, SetMD5, WriteCall, WriteAvailable, WriteFill, StreamCall,
         StreamRead, StreamTimeout, StreamDone, FlushErase, FlushProgram, EndCall, EndVerify,
         EndStage, Unstage, AfterFailure, AfterSuccess, Sketch
    <3> QED BY <2>1, <3>2
  <2> QED BY <1>1, <2>2, <2>3
<1>2. CASE BootStep
  BY <1>2, BootMainRead, BootCopyRead, BootErase, BootWrite, BootDone, BootMain
     DEF BootStep, EbootNext
<1>3. CASE ChipReset \/ PowerCut
  BY <1>3, BootReset
<1>4. CASE UNCHANGED vars
  BY <1>4 DEF vars, BootInv, Exempt, Apart, SomeSketch, Is, Holds, Sector
<1> QED BY <1>1, <1>2, <1>3, <1>4 DEF Next

\* Whatever resets interrupt the update, the command or the copy, the device
\* ends with a whole sketch (copy_raw(), main() of eboot): unless the image was
\* never checked, or it overlaps its destination and the copy is interrupted.
\* Needed: a flash that does not fail the bootloader, which clears the command
\* whether or not the copy succeeded, and power while it copies, since RTC
\* memory holds the only record of the command.
THEOREM BootsWholeSketch ==
    (FlashFails => Signed) /\ ~BootFails /\ PowerCuts \subseteq Sketch => (Spec => []BootsWhole)
<1> SUFFICES ASSUME FlashFails => Signed, ~BootFails, PowerCuts \subseteq Sketch
             PROVE  Spec => []BootsWhole
  OBVIOUS
<1> DEFINE I == StageInv /\ BootInv
<1>1. Init => I
  <2> SUFFICES ASSUME Init PROVE I
    OBVIOUS
  <2>1. pc = "idle"
    BY DEF Init, SharedInit
  <2> QED BY <2>1, StageInit DEF BootInv
<1>2. I /\ [Next]_vars => I'
  BY StageNext, NextInv, BootNext DEF StageInv
<1>3. I => BootsWhole
  BY DEF BootInv, BootsWhole, Exempt
<1> QED BY <1>1, <1>2, <1>3, PTL DEF Spec

-----------------------------------------------------------------------------
(* An image that arrives complete and undamaged is accepted. *)

\* Cells of image m from cell p on: joined with what follows them, and split.
Run(s, m, p) == \A i \in 1 .. Len(s) : s[i] = Cell(m, p + i - 1)

LEMMA RunJoined ==
    ASSUME NEW s \in Seq(Cells), NEW t \in Seq(Cells), NEW m, NEW p \in Nat,
           Run(s, m, p), Run(t, m, p + Len(s))
    PROVE  Run(s \o t, m, p) /\ Len(s \o t) = Len(s) + Len(t)
<1>1. PICK ls \in Nat, lt \in Nat : ls = Len(s) /\ lt = Len(t)
  OBVIOUS
<1>2. PICK u : u = s \o t
  OBVIOUS
<1>3. /\ Len(u) = ls + lt
      /\ \A i \in 1 .. ls + lt : u[i] = IF i <= ls THEN s[i] ELSE t[i - ls]
  BY <1>1, <1>2, ConcatProperties
<1>4. ASSUME NEW i \in 1 .. ls + lt
      PROVE  u[i] = Cell(m, p + i - 1)
  <2>1. CASE i <= ls
    BY <1>1, <1>3, <2>1 DEF Run
  <2>2. CASE i > ls
    <3>1. PICK j \in 1 .. lt : j = i - ls
      BY <2>2
    <3>2. t[j] = Cell(m, (p + ls) + j - 1)
      BY <1>1 DEF Run
    <3>3. (p + ls) + j - 1 = p + i - 1
      BY <3>1
    <3> QED BY <1>3, <2>2, <3>1, <3>2, <3>3
  <2> QED BY <2>1, <2>2
<1> QED BY <1>1, <1>2, <1>3, <1>4 DEF Run

LEMMA RunSplit ==
    ASSUME NEW s \in Seq(Cells), NEW n \in Nat, n <= Len(s), NEW m, NEW p \in Nat, Run(s, m, p)
    PROVE  /\ SubSeq(s, 1, n) \in Seq(Cells) /\ Len(SubSeq(s, 1, n)) = n
           /\ Run(SubSeq(s, 1, n), m, p)
           /\ SubSeq(s, n + 1, Len(s)) \in Seq(Cells)
           /\ Len(SubSeq(s, n + 1, Len(s))) = Len(s) - n
           /\ Run(SubSeq(s, n + 1, Len(s)), m, p + n)
<1>1. PICK ls \in Nat : ls = Len(s)
  OBVIOUS
<1>2. PICK a : a = SubSeq(s, 1, n)
  OBVIOUS
<1>3. PICK b : b = SubSeq(s, n + 1, ls)
  OBVIOUS
<1>4. a \in Seq(Cells) /\ Len(a) = n /\ \A i \in 1 .. n : a[i] = s[i]
  BY <1>1, <1>2, SubSeqProperties
<1>5. b \in Seq(Cells) /\ Len(b) = ls - n
  BY <1>1, <1>3, SubSeqProperties
<1>6. \A i \in 1 .. ls - n : b[i] = s[n + i]
  <2> TAKE i \in 1 .. ls - n
  <2>1. b = [k \in 1 .. ls - n |-> s[k + (n + 1) - 1]]
    BY <1>1, <1>3
  <2>2. i + (n + 1) - 1 = n + i
    OBVIOUS
  <2> QED BY <2>1, <2>2
<1>7. Run(a, m, p)
  BY <1>1, <1>4 DEF Run
<1>8. Run(b, m, p + n)
  <2> SUFFICES ASSUME NEW i \in 1 .. ls - n PROVE b[i] = Cell(m, (p + n) + i - 1)
    BY <1>5 DEF Run
  <2>1. PICK j \in 1 .. ls : j = n + i
    OBVIOUS
  <2>2. s[j] = Cell(m, p + j - 1) /\ p + j - 1 = (p + n) + i - 1
    BY <1>1, <2>1 DEF Run
  <2> QED BY <1>6, <2>1, <2>2
<1> QED BY <1>1, <1>2, <1>3, <1>4, <1>5, <1>7, <1>8

Refusals == {"sign", "md5", "magic"}

\* Without damage the MD5, the buffer and what write() still holds are, one
\* after the other, the cells of the image that were sent.
Arrived ==
    /\ Run(upd.md5, upd.src, 0)
    /\ Run(upd.buf, upd.src, upd.cur - upd.start)
    /\ Run(upd.left, upd.src, upd.cur - upd.start + Len(upd.buf))

ArrivedInv ==
    /\ upd.size > 0 => upd.error = "ok"
    /\ upd.error \in Refusals => upd.sent # Size[upd.src]
    /\ upd.target \in {"none", upd.src}
    /\ pc = "verify" => upd.buf = <<>>
    /\ upd.size > 0 /\ pc # "command" => Arrived

LEMMA DropKeeps ==
    ASSUME NEW u \in UpdType, NEW e, NEW v
    PROVE  /\ Reset(u).error = u.error /\ Reset(u).sent = u.sent
           /\ Reset(u).src = u.src /\ Reset(u).target = u.target /\ Reset(u).size = 0
           /\ SetError(u, e).error = e /\ SetError(u, e).sent = u.sent
           /\ SetError(u, e).src = u.src /\ SetError(u, e).target = u.target
           /\ SetError(u, e).size = 0 /\ SetError(u, e).buf = <<>>
           /\ Return(Reset(u), v).error = u.error /\ Return(Reset(u), v).sent = u.sent
           /\ Return(Reset(u), v).src = u.src /\ Return(Reset(u), v).target = u.target
           /\ Return(Reset(u), v).size = 0
           /\ Return(SetError(u, e), v).error = e /\ Return(SetError(u, e), v).sent = u.sent
           /\ Return(SetError(u, e), v).src = u.src
           /\ Return(SetError(u, e), v).target = u.target
           /\ Return(SetError(u, e), v).size = 0
<1>1. PICK r : r = Reset(u)
  OBVIOUS
<1>2. r = [size |-> 0, start |-> 0, cur |-> 0, bufSize |-> u.bufSize, buf |-> <<>>,
           left |-> <<>>, back |-> "idle", even |-> u.even, error |-> u.error,
           target |-> u.target, md5 |-> u.md5, src |-> u.src, sent |-> u.sent, ret |-> u.ret]
  BY <1>1 DEF Reset, UpdType
<1>3. PICK x : x = SetError(u, e)
  OBVIOUS
<1>4. x = [size |-> 0, start |-> 0, cur |-> 0, bufSize |-> u.bufSize, buf |-> <<>>,
           left |-> <<>>, back |-> "idle", even |-> u.even, error |-> e,
           target |-> u.target, md5 |-> u.md5, src |-> u.src, sent |-> u.sent, ret |-> u.ret]
  <2>1. x = [r EXCEPT !.error = e]
    BY <1>1, <1>3 DEF SetError
  <2> QED BY <1>2, <2>1
<1>5. PICK y : y = Return(r, v)
  OBVIOUS
<1>6. y = [size |-> 0, start |-> 0, cur |-> 0, bufSize |-> u.bufSize, buf |-> <<>>,
           left |-> <<>>, back |-> "idle", even |-> u.even, error |-> u.error,
           target |-> u.target, md5 |-> u.md5, src |-> u.src, sent |-> u.sent, ret |-> v]
  BY <1>2, <1>5 DEF Return
<1>7. PICK z : z = Return(x, v)
  OBVIOUS
<1>8. z = [size |-> 0, start |-> 0, cur |-> 0, bufSize |-> u.bufSize, buf |-> <<>>,
           left |-> <<>>, back |-> "idle", even |-> u.even, error |-> e,
           target |-> u.target, md5 |-> u.md5, src |-> u.src, sent |-> u.sent, ret |-> v]
  BY <1>4, <1>7 DEF Return
<1>9. r.error = u.error /\ r.sent = u.sent /\ r.src = u.src /\ r.target = u.target /\ r.size = 0
  BY <1>2
<1>10. /\ x.error = e /\ x.sent = u.sent /\ x.src = u.src /\ x.target = u.target /\ x.size = 0
       /\ x.buf = <<>>
  BY <1>4
<1>11. y.error = u.error /\ y.sent = u.sent /\ y.src = u.src /\ y.target = u.target /\ y.size = 0
  BY <1>6
<1>12. z.error = e /\ z.sent = u.sent /\ z.src = u.src /\ z.target = u.target /\ z.size = 0
  BY <1>8
<1> QED BY <1>1, <1>3, <1>5, <1>7, <1>9, <1>10, <1>11, <1>12

LEMMA ArrivedDropped ==
    ASSUME ArrivedInv, upd'.size = 0, upd'.sent = upd.sent, upd'.src = upd.src,
           upd'.target = upd.target, pc' # "verify",
           upd'.error \in Refusals => upd'.error = upd.error \/ upd.sent # Size[upd.src]
    PROVE  ArrivedInv'
  BY DEF ArrivedInv

\* Without damage there is only one thing that can arrive.
LEMMA UndamagedData ==
    ASSUME Damageable = {}, NEW n \in Nat, NEW d \in Data(n)
    PROVE  d = [i \in 1 .. n |-> Cell(upd.src, upd.sent + i - 1)]
<1> DEFINE sent == [i \in 1 .. n |-> Cell(upd.src, upd.sent + i - 1)]
<1>1. [i \in 1 .. n |-> IF sent[i].pos \in Damageable THEN Garbage ELSE sent[i]] = sent
  OBVIOUS
<1> QED BY <1>1 DEF Data

LEMMA ArrivedBegin == ASSUME OtaInv, OtaInv', ArrivedInv, BeginCall PROVE ArrivedInv'
<1>1. pc' = "idle" /\ pc = "idle" /\ upd \in UpdType /\ upd.size \in Nat
  BY DEF BeginCall, OtaInv, OtaTypeOK, UpdType
<1>2. CASE BeginRunning \/ BeginRefused
  <2>1. PICK e \in {"running", "refused"} : upd' = SetError(upd, e)
    BY <1>2 DEF BeginRunning, BeginRefused
  <2> QED BY <1>1, <2>1, DropKeeps, ArrivedDropped DEF Refusals
<1>3. ASSUME NEW m \in Images, NEW n, Begin(m, n)
      PROVE  ArrivedInv'
  <2>1. PICK f : f = Fresh(m)
    OBVIOUS
  <2>2. f = [size |-> 0, start |-> 0, cur |-> 0, bufSize |-> upd.bufSize, buf |-> <<>>,
             left |-> <<>>, back |-> "idle", even |-> upd.even, error |-> "ok",
             target |-> "none", md5 |-> <<>>, src |-> m, sent |-> 0, ret |-> "none"]
    BY <1>1, <2>1 DEF Fresh, Reset, UpdType
  <2>3. CASE \E e \in {"space", "oom"} : upd' = SetError(f, e)
    <3>1. PICK e \in {"space", "oom"} : upd' = SetError(f, e)
      BY <2>3
    <3>2. f \in UpdType
      <4>1. <<>> \in Seq(Cells) /\ "ok" \in Errors
        BY DEF Errors
      <4> QED BY <1>1, <2>2, <4>1 DEF UpdType
    <3>3. upd'.error = e /\ upd'.size = 0 /\ upd'.src = f.src /\ upd'.target = f.target
      BY <3>1, <3>2, DropKeeps
    <3> QED BY <1>1, <2>2, <3>3 DEF ArrivedInv, Refusals
  <2>4. ASSUME NEW b \in BufferSizes,
               upd' = [f EXCEPT !.start = StartAddress(n), !.cur = StartAddress(n),
                                !.size = n, !.bufSize = b]
        PROVE  ArrivedInv'
    <3>1. /\ upd'.buf = <<>> /\ upd'.left = <<>> /\ upd'.md5 = <<>> /\ upd'.error = "ok"
          /\ upd'.target = "none"
      BY <2>2, <2>4
    <3>2. Arrived'
      BY <3>1 DEF Arrived, Run
    <3> QED BY <1>1, <3>1, <3>2 DEF ArrivedInv, Refusals
  <2> QED BY <1>3, <2>1, <2>3, <2>4 DEF Begin
<1> QED BY <1>2, <1>3 DEF BeginCall

LEMMA ArrivedWrite ==
    ASSUME Damageable = {}, OtaInv, ArrivedInv,
           \/ SetMD5 \/ WriteCall \/ WriteAvailable \/ WriteFill
           \/ StreamCall \/ StreamRead \/ StreamTimeout \/ StreamDone
    PROVE  ArrivedInv'
<1>1. /\ pc \in {"idle", "write", "stream"} /\ pc' \in {"idle", "write", "stream", "flush"}
      /\ upd.size > 0
  BY DEF SetMD5, WriteCall, WriteAvailable, WriteFill, StreamCall, StreamRead, StreamTimeout,
         StreamDone, isRunning, OtaInv, UpdInv, Writing
<1>2. /\ Reserved /\ upd \in UpdType /\ upd.start \in Nat /\ upd.cur \in Nat
      /\ upd.sent \in Nat /\ upd.bufSize \in Nat
      /\ upd.buf \in Seq(Cells) /\ upd.left \in Seq(Cells)
      /\ Len(upd.buf) \in Nat /\ Len(upd.left) \in Nat
  BY <1>1, RunningFacts DEF Sketch
<1>3. upd.error = "ok" /\ Arrived
  BY <1>1 DEF ArrivedInv
<1>4. PICK p \in Nat, lb \in Nat, ll \in Nat :
         /\ p = upd.cur - upd.start /\ lb = Len(upd.buf) /\ ll = Len(upd.left)
         /\ p + lb + ll = upd.sent
  BY <1>2 DEF Reserved
<1>5. ASSUME upd'.size = upd.size, upd'.error = upd.error, upd'.target \in {"none", upd.src},
             upd'.src = upd.src, Arrived'
      PROVE  ArrivedInv'
  BY <1>1, <1>3, <1>5 DEF ArrivedInv, Refusals
<1>6. ASSUME NEW e \in {"space", "magic", "stream"}, upd' = SetError(upd, e),
             e = "magic" => upd.sent # Size[upd.src]
      PROVE  ArrivedInv'
  <2>1. PICK x : x = SetError(upd, e) /\ upd' = x
    BY <1>6
  <2>2. /\ x.size = 0 /\ x.sent = upd.sent /\ x.src = upd.src /\ x.target = upd.target
        /\ x.error = e
    BY <1>2, <2>1, DropKeeps
  <2>3. upd'.error \in Refusals => upd.sent # Size[upd.src]
    BY <1>6, <2>1, <2>2 DEF Refusals
  <2>4. pc' # "verify"
    BY <1>1
  <2> QED BY <2>1, <2>2, <2>3, <2>4, ArrivedDropped
<1>7. More => upd.sent # Size[upd.src]
  BY <1>2, Geometry DEF More, UpdType
<1>8. CASE SetMD5
  <2>1. upd' = [upd EXCEPT !.target = upd.src]
    BY <1>8 DEF SetMD5
  <2>2. /\ upd'.size = upd.size /\ upd'.error = upd.error /\ upd'.target = upd.src
        /\ upd'.src = upd.src /\ upd'.md5 = upd.md5 /\ upd'.buf = upd.buf
        /\ upd'.left = upd.left /\ upd'.cur = upd.cur /\ upd'.start = upd.start
    BY <1>2, <2>1 DEF UpdType
  <2> QED BY <1>3, <1>5, <2>2 DEF Arrived
<1>9. CASE WriteCall \/ WriteAvailable
  <2>1. ASSUME NEW n \in 1 .. MaxChunk, NEW d \in Data(n), pc = "idle",
               upd' = [upd EXCEPT !.left = d, !.sent = @ + n, !.back = "write"]
        PROVE  ArrivedInv'
    <3>1. /\ upd'.size = upd.size /\ upd'.error = upd.error /\ upd'.target = upd.target
          /\ upd'.src = upd.src /\ upd'.md5 = upd.md5 /\ upd'.buf = upd.buf
          /\ upd'.left = d /\ upd'.cur = upd.cur /\ upd'.start = upd.start
      BY <1>2, <2>1 DEF UpdType
    <3>2. n \in Nat
      BY UpdaterAssumption
    <3>3. d = [i \in 1 .. n |-> Cell(upd.src, upd.sent + i - 1)]
      BY <2>1, <3>2, UndamagedData
    <3>4. Len(d) = n
      BY <3>2, <3>3
    <3>5. upd.sent = p + lb
      <4>1. upd.left = <<>>
        BY <2>1 DEF OtaInv, UpdInv
      <4>2. ll = 0
        BY <1>4, <4>1
      <4> QED BY <1>4, <4>2
    <3>6. Run(d, upd.src, p + lb)
      BY <3>3, <3>4, <3>5 DEF Run
    <3>7. Arrived'
      BY <1>3, <1>4, <3>1, <3>4, <3>6 DEF Arrived
    <3> QED BY <1>5, <3>1, <3>7 DEF ArrivedInv
  <2>2. CASE upd' = SetError(upd, "space")
    BY <1>6, <2>2
  <2> QED BY <1>9, <2>1, <2>2 DEF WriteCall, WriteAvailable
<1>10. CASE WriteFill
  <2>1. PICK n, buf, left :
          /\ n = IF Len(upd.left) > upd.bufSize - Len(upd.buf)
                 THEN upd.bufSize - Len(upd.buf) ELSE Len(upd.left)
          /\ buf = upd.buf \o SubSeq(upd.left, 1, n)
          /\ left = SubSeq(upd.left, n + 1, Len(upd.left))
          /\ upd' = [upd EXCEPT !.buf = buf, !.left = left]
    BY <1>2, <1>10 DEF WriteFill, UpdType
  <2>2. /\ upd'.size = upd.size /\ upd'.error = upd.error /\ upd'.target = upd.target
        /\ upd'.src = upd.src /\ upd'.md5 = upd.md5 /\ upd'.buf = buf
        /\ upd'.left = left /\ upd'.cur = upd.cur /\ upd'.start = upd.start
    BY <1>2, <2>1 DEF UpdType
  <2>3. n \in Nat /\ n <= ll
    <3>1. PICK bs \in Nat : bs = upd.bufSize /\ lb <= bs
      BY <1>2, <1>4 DEF Reserved
    <3>2. n = IF ll > bs - lb THEN bs - lb ELSE ll
      BY <1>4, <2>1, <3>1
    <3> QED BY <3>1, <3>2
  <2>4. Run(upd.buf, upd.src, p) /\ Run(upd.left, upd.src, p + lb) /\ p + lb \in Nat
    BY <1>3, <1>4 DEF Arrived
  <2>5. PICK a : a = SubSeq(upd.left, 1, n)
    OBVIOUS
  <2>6. /\ a \in Seq(Cells) /\ Len(a) = n /\ Run(a, upd.src, p + lb)
        /\ left \in Seq(Cells) /\ Len(left) = ll - n /\ Run(left, upd.src, (p + lb) + n)
    BY <1>2, <1>4, <2>1, <2>3, <2>4, <2>5, RunSplit, ZenonT(60)
  <2>7. Run(buf, upd.src, p) /\ Len(buf) = lb + n
    <3>1. PICK u \in Seq(Cells) : u = upd.buf /\ Len(u) = lb /\ Run(u, upd.src, p)
      BY <1>2, <1>4, <2>4
    <3>2. Run(a, upd.src, p + Len(u))
      BY <2>6, <3>1
    <3>3. Run(u \o a, upd.src, p) /\ Len(u \o a) = Len(u) + Len(a)
      BY <2>6, <3>1, <3>2, RunJoined
    <3> QED BY <2>1, <2>5, <2>6, <3>1, <3>3
  <2>8. (p + lb) + n = p + (lb + n)
    BY <2>3
  <2>9. Arrived'
    BY <1>3, <1>4, <2>2, <2>6, <2>7, <2>8 DEF Arrived
  <2> QED BY <1>5, <2>2, <2>9 DEF ArrivedInv
<1>11. CASE StreamCall
  <2>1. CASE upd' = SetError(upd, "magic")
    BY <1>6, <1>7, <1>11, <2>1 DEF StreamCall
  <2>2. CASE upd' = [upd EXCEPT !.back = "stream"]
    <3>1. /\ upd'.size = upd.size /\ upd'.error = upd.error /\ upd'.target = upd.target
          /\ upd'.src = upd.src /\ upd'.md5 = upd.md5 /\ upd'.buf = upd.buf
          /\ upd'.left = upd.left /\ upd'.cur = upd.cur /\ upd'.start = upd.start
      BY <1>2, <2>2 DEF UpdType
    <3>2. Arrived'
      BY <1>3, <3>1 DEF Arrived
    <3> QED BY <1>5, <3>1, <3>2 DEF ArrivedInv
  <2> QED BY <1>11, <2>1, <2>2 DEF StreamCall
<1>12. CASE StreamRead
  <2>1. PICK n \in 1 .. MaxChunk : upd.sent + n <= upd.size /\ \E d, buf :
           d \in Data(n) /\ buf = upd.buf \o d /\ upd' = [upd EXCEPT !.buf = buf, !.sent = @ + n]
    BY <1>12 DEF StreamRead
  <2> PICK d, buf :
           d \in Data(n) /\ buf = upd.buf \o d /\ upd' = [upd EXCEPT !.buf = buf, !.sent = @ + n]
    BY <2>1
  <2>2. /\ upd'.size = upd.size /\ upd'.error = upd.error /\ upd'.target = upd.target
        /\ upd'.src = upd.src /\ upd'.md5 = upd.md5 /\ upd'.buf = buf
        /\ upd'.left = upd.left /\ upd'.cur = upd.cur /\ upd'.start = upd.start
    BY <1>2, <2>1 DEF UpdType
  <2>3. n \in Nat
    BY UpdaterAssumption
  <2>4. d = [i \in 1 .. n |-> Cell(upd.src, upd.sent + i - 1)]
    BY <2>1, <2>3, UndamagedData
  <2>5. upd.left = <<>> /\ Len(upd.left) = 0
    <3>1. upd.left = <<>>
      BY <1>12 DEF StreamRead, OtaInv, UpdInv
    <3> QED BY <3>1
  <2>6. upd.sent = p + lb
    BY <1>4, <2>5
  <2>7. d \in Seq(Cells) /\ Run(d, upd.src, p + lb)
    <3>1. Len(d) = n
      BY <2>3, <2>4
    <3>2. Run(d, upd.src, p + lb)
      BY <2>4, <2>6, <3>1 DEF Run
    <3>3. upd.sent + n <= FlashEnd
      <4>1. upd.size <= FlashEnd /\ upd.size \in Nat
        BY <1>1, RunningFacts DEF Sketch
      <4> QED BY <1>2, <2>1, <2>3, <4>1, Geometry
    <3> QED BY <1>2, <2>3, <3>2, <3>3, DataType
  <2>8. Run(buf, upd.src, p)
    <3>1. Run(upd.buf, upd.src, p)
      BY <1>3, <1>4 DEF Arrived
    <3> QED BY <1>2, <1>4, <2>7, <3>1, RunJoined
  <2>9. Arrived'
    <3>1. \A x : Run(upd.left, upd.src, x)
      BY <2>5 DEF Run
    <3> QED BY <1>3, <1>4, <2>2, <2>8, <3>1 DEF Arrived
  <2> QED BY <1>5, <2>2, <2>9 DEF ArrivedInv
<1>13. CASE StreamTimeout
  BY <1>6, <1>13 DEF StreamTimeout
<1>14. CASE StreamDone
  <2>1. UNCHANGED upd
    BY <1>14 DEF StreamDone
  <2> QED BY <1>3, <1>5, <2>1 DEF ArrivedInv, Arrived
<1> QED BY <1>8, <1>9, <1>10, <1>11, <1>12, <1>13, <1>14

LEMMA ArrivedFlush ==
    ASSUME ~Signed, ~FlashFails, OtaInv, DataInv, ArrivedInv, FlushErase \/ FlushProgram
    PROVE  ArrivedInv'
<1>1. /\ pc \in {"flush", "program"} /\ upd.size > 0 /\ pc \in Sketch /\ pc # "command"
  BY DEF FlushErase, FlushProgram, OtaInv, UpdInv, Writing, Sketch
<1>2. /\ upd \in UpdType /\ upd.start \in Nat /\ upd.cur \in Nat /\ Reserved
      /\ upd.buf \in Seq(Cells) /\ Len(upd.buf) \in Nat /\ upd.md5 \in Seq(Cells)
  BY <1>1, RunningFacts DEF UpdType
<1>3. upd.error = "ok" /\ Arrived /\ Len(upd.md5) = upd.cur - upd.start
  BY <1>1 DEF ArrivedInv, DataInv
<1>4. CASE FlushErase
  <2>1. UNCHANGED upd /\ pc' = "program"
    BY <1>4 DEF FlushErase
  <2> QED BY <1>1, <1>3, <2>1 DEF ArrivedInv, Arrived, Refusals
<1>5. CASE FlushProgram
  <2>1. /\ upd' = [upd EXCEPT !.md5 = upd.md5 \o upd.buf, !.cur = @ + Len(upd.buf), !.buf = <<>>]
    BY <1>5 DEF FlushProgram, Md5After
  <2>2. /\ upd'.size = upd.size /\ upd'.error = upd.error /\ upd'.target = upd.target
        /\ upd'.src = upd.src /\ upd'.md5 = upd.md5 \o upd.buf /\ upd'.buf = <<>>
        /\ upd'.left = upd.left /\ upd'.cur = upd.cur + Len(upd.buf) /\ upd'.start = upd.start
    BY <1>2, <2>1 DEF UpdType
  <2>3. PICK p \in Nat : p = upd.cur - upd.start
    BY <1>2 DEF Reserved
  <2>4. Run(upd.md5 \o upd.buf, upd.src, 0)
    <3>1. /\ Run(upd.md5, upd.src, 0) /\ Run(upd.buf, upd.src, 0 + Len(upd.md5))
      BY <1>3, <2>3 DEF Arrived
    <3> QED BY <1>2, <3>1, RunJoined
  <2>5. upd'.cur - upd'.start + Len(upd'.buf) = upd.cur - upd.start + Len(upd.buf)
    <3>1. Len(upd'.buf) = 0
      BY <2>2
    <3> QED BY <1>2, <2>2, <3>1
  <2>6. Arrived'
    <3>1. \A x : Run(upd'.buf, upd.src, x)
      BY <2>2 DEF Run
    <3> QED BY <1>3, <2>2, <2>4, <2>5, <3>1 DEF Arrived
  <2> QED BY <1>1, <1>3, <2>2, <2>6 DEF ArrivedInv, Refusals
<1> QED BY <1>4, <1>5

LEMMA ArrivedEnd ==
    ASSUME ~Signed, ~FlashFails, OtaInv, DataInv, NoFailure, ArrivedInv,
           EndCall \/ EndVerify \/ EndStage
    PROVE  ArrivedInv'
<1>1. upd \in UpdType
  BY DEF OtaInv, OtaTypeOK
<1>2. ASSUME NEW v, upd' = Return(Reset(upd), v), pc' # "verify"
      PROVE  ArrivedInv'
  BY <1>1, <1>2, DropKeeps, ArrivedDropped
<1>3. ASSUME NEW e, NEW v, upd' = Return(SetError(upd, e), v), pc' # "verify",
             e \in Refusals => upd.sent # Size[upd.src]
      PROVE  ArrivedInv'
  BY <1>1, <1>3, DropKeeps, ArrivedDropped
<1>4. CASE EndStage
  BY <1>2, <1>4 DEF EndStage
<1>5. CASE EndCall
  <2>1. ASSUME NEW even \in BOOLEAN, isRunning, MayEnd(even),
               upd' = [upd EXCEPT !.even = even, !.back = "verify"],
               pc' = IF even /\ upd.buf # <<>> THEN "flush" ELSE "verify"
        PROVE  ArrivedInv'
    <3>1. /\ upd'.size = upd.size /\ upd'.error = upd.error /\ upd'.target = upd.target
          /\ upd'.src = upd.src /\ upd'.md5 = upd.md5 /\ upd'.buf = upd.buf
          /\ upd'.left = upd.left /\ upd'.cur = upd.cur /\ upd'.start = upd.start
          /\ upd'.sent = upd.sent
      BY <1>1, <2>1 DEF UpdType
    <3>2. pc = "idle" /\ upd.size > 0 /\ pc \in Sketch /\ pc # "command"
      BY <1>5, <2>1 DEF EndCall, isRunning, Sketch
    <3>3. ~even => upd.buf = <<>>
      <4>1. SUFFICES ASSUME ~even PROVE upd.buf = <<>>
        OBVIOUS
      <4>2. upd.cur = upd.start + upd.size
        BY <2>1, <4>1 DEF MayEnd
      <4>3. /\ upd.cur \in Nat /\ upd.start \in Nat /\ upd.size \in Nat /\ Len(upd.buf) \in Nat
            /\ upd.buf \in Seq(Cells) /\ upd.cur - upd.start + Len(upd.buf) <= upd.size
        BY <3>2, RunningFacts, CursorBound
      <4>4. Len(upd.buf) = 0
        BY <4>2, <4>3
      <4> QED BY <4>3, <4>4, EmptySeq
    <3>4. pc' = "verify" => upd.buf = <<>>
      BY <2>1, <3>3
    <3>5. Arrived /\ upd.error = "ok"
      BY <3>2 DEF ArrivedInv
    <3>6. Arrived'
      BY <3>1, <3>5 DEF Arrived
    <3> QED BY <3>1, <3>4, <3>5, <3>6 DEF ArrivedInv, Refusals
  <2> QED BY <1>2, <1>3, <1>5, <2>1 DEF EndCall, Refusals
<1>6. CASE EndVerify
  <2>1. pc = "verify" /\ upd.size > 0 /\ pc # "command" /\ pc \in Sketch
    <3>1. upd.size \in Nat
      BY <1>1 DEF UpdType
    <3> QED BY <1>6, <3>1 DEF EndVerify, NoFailure, Sketch
  <2>2. /\ upd.error = "ok" /\ Arrived /\ upd.buf = <<>> /\ upd.target \in {"none", upd.src}
        /\ upd.left = <<>>
    BY <2>1 DEF ArrivedInv, OtaInv, UpdInv
  <2>3. upd.cur \in Nat /\ upd.start \in Nat /\ upd.sent \in Nat /\ Reserved
        /\ upd.md5 \in Seq(Cells) /\ upd.src \in Images
    BY <1>1, <2>1, RunningFacts DEF UpdType
  <2>4. /\ Len(upd.md5) = upd.cur - upd.start
        /\ \A i \in 1 .. Len(upd.md5) : Is(upd.start + i - 1, upd.md5[i].img, upd.md5[i].pos)
    BY <2>1 DEF DataInv
  <2>5. Len(upd.md5) = upd.sent
    <3>1. Len(upd.buf) = 0 /\ Len(upd.left) = 0
      BY <2>2
    <3> QED BY <2>3, <2>4, <3>1 DEF Reserved
  <2>6. ASSUME upd.sent = Size[upd.src]
        PROVE  Md5Is(upd.src) /\ Magic(flash[upd.start])
    <3>1. PICK z \in Nat : z = Size[upd.src] /\ z >= 2 /\ Len(upd.md5) = z
      BY <2>3, <2>5, <2>6, Geometry
    <3>2. \A i \in 1 .. z : upd.md5[i] = Cell(upd.src, i - 1)
      <4>1. \A i \in 1 .. z : 0 + i - 1 = i - 1
        OBVIOUS
      <4> QED BY <2>2, <3>1, <4>1 DEF Arrived, Run
    <3>3. upd.md5 = [i \in 1 .. z |-> Cell(upd.src, i - 1)]
      <4>1. upd.md5 \in [1 .. z -> Cells]
        BY <2>3, <3>1
      <4>2. PICK f \in [1 .. z -> Cells] : f = upd.md5
        BY <4>1
      <4>3. f = [i \in 1 .. z |-> f[i]]
        OBVIOUS
      <4>4. \A i \in 1 .. z : f[i] = Cell(upd.src, i - 1)
        BY <3>2, <4>2
      <4>5. f = [i \in 1 .. z |-> Cell(upd.src, i - 1)]
        BY <4>3, <4>4
      <4> QED BY <4>2, <4>5
    <3>4. upd.md5[1] = Cell(upd.src, 0)
      BY <3>1, <3>2
    <3>5. Is(upd.start, upd.md5[1].img, upd.md5[1].pos)
      <4>1. 1 \in 1 .. z /\ upd.start + 1 - 1 = upd.start
        BY <2>3, <3>1
      <4> QED BY <2>4, <3>1, <4>1
    <3> QED BY <2>3, <3>1, <3>3, <3>4, <3>5 DEF Md5Is, Magic, Is, Cell
  <2>7. CASE pc' = "idle"
    <3>1. PICK e \in {"md5", "magic"} :
             /\ upd' = Return(SetError(upd, e), "false")
             /\ ~Magic(flash[upd.start]) \/ \E n : ~Checked(n)
      BY <1>6, <2>7 DEF EndVerify
    <3>2. upd.sent # Size[upd.src]
      BY <2>2, <2>6, <3>1 DEF Checked
    <3> QED BY <1>3, <2>7, <3>1, <3>2
  <2>8. CASE pc' = "command"
    <3>1. PICK n : upd' = [upd EXCEPT !.size = n]
      BY <1>6, <2>8 DEF EndVerify
    <3>2. upd'.error = upd.error /\ upd'.target = upd.target /\ upd'.src = upd.src
      BY <1>1, <3>1 DEF UpdType
    <3> QED BY <2>2, <2>8, <3>2 DEF ArrivedInv, Refusals
  <2> QED BY <1>6, <2>7, <2>8 DEF EndVerify
<1> QED BY <1>4, <1>5, <1>6

LEMMA ArrivedNext ==
    ASSUME ~Signed, ~FlashFails, Damageable = {}, OtaInv, OtaInv', DataInv, NoFailure, ArrivedInv,
           [Next]_vars
    PROVE  ArrivedInv'
<1>1. CASE BeginCall \/ SetMD5 \/ WriteCall \/ WriteAvailable \/ WriteFill
             \/ StreamCall \/ StreamRead \/ StreamTimeout \/ StreamDone
  BY <1>1, ArrivedBegin, ArrivedWrite
<1>2. CASE FlushErase \/ FlushProgram \/ EndCall \/ EndVerify \/ EndStage
  BY <1>2, ArrivedFlush, ArrivedEnd
<1>3. ASSUME upd' = NoUpdate, pc' # "verify"
      PROVE  ArrivedInv'
  BY <1>3 DEF ArrivedInv, NoUpdate, Refusals
<1>4. CASE Restart \/ ChipReset \/ PowerCut
  BY <1>3, <1>4 DEF Restart, ChipReset, PowerCut
<1>5. CASE BootStep
  <2>1. upd' = NoUpdate
    BY <1>5 DEF BootStep, EbootNext, MainRead, CopyRead, CopyErase, CopyWrite, CopyFails,
                CopyDone, MainClear, LoadApp, LoadFails, OtaInv, UpdInv, Boot
  <2>2. pc' # "verify"
    BY <1>5 DEF BootStep, EbootNext, MainRead, CopyRead, CopyErase, CopyWrite, CopyFails,
                CopyDone, MainClear, LoadApp, LoadFails
  <2> QED BY <1>3, <2>1, <2>2
<1>6. CASE Unstage \/ UNCHANGED vars
  BY <1>6 DEF Unstage, vars, ArrivedInv, Arrived
<1> QED BY <1>1, <1>2, <1>4, <1>5, <1>6 DEF Next, UpdNext

\* end() refuses no image that arrived complete and undamaged, whatever chunks
\* and buffers it arrived in, and although the flash mode in its header is
\* patched on the way (write(), writeStream(), _writeBuffer(), end() with an
\* MD5, on a flash that does not fail); and the running sketch stays whole.
THEOREM GoodImagesAccepted ==
    ~Signed /\ ~FlashFails /\ Damageable = {} => (Spec => []SketchIntact)
<1> SUFFICES ASSUME ~Signed, ~FlashFails, Damageable = {} PROVE Spec => []SketchIntact
  OBVIOUS
<1> DEFINE I == StageInv /\ ArrivedInv
<1>1. Init => I
  <2> SUFFICES ASSUME Init PROVE I
    OBVIOUS
  <2>1. upd = NoUpdate /\ pc = "idle"
    BY DEF Init, SharedInit, UpdInit
  <2> QED BY <2>1, StageInit DEF ArrivedInv, NoUpdate, Refusals
<1>2. I /\ [Next]_vars => I'
  BY StageNext, NextInv, ArrivedNext DEF StageInv
<1>3. I => SketchIntact
  BY DEF StageInv, OtaInv, ArrivedInv, SketchIntact, Refusals
<1> QED BY <1>1, <1>2, <1>3, PTL DEF Spec

=============================================================================
