--------------------------- MODULE RedirectProofs ---------------------------
(***************************************************************************)
(* Proofs about module Redirect, for any number of descriptors, size of    *)
(* blocks and pipes, and texts: the numbers that cr_redirect keeps stay    *)
(* those of the ends of its pipes, the pipes hold what was printed, and a  *)
(* comparison returns the truth about it. Before them those about MockFile,*)
(* the file that a comparison reads.                                       *)
(***************************************************************************)
EXTENDS Redirect, FiniteSetTheorems, SequenceTheorems, WellFoundedInduction,
        TLAPS

----------------------------------------------------------------------------
(* The mock file: memory outside of its allocation is reached only after   *)
(* an allocation that failed, and the mock implements a file of bytes.     *)

\* What is known while a write is on its way.
WriteOK ==
    /\ mpc \in {"grow", "realloc", "copy"} =>
        /\ mf.cur < write_end(wr) /\ write_end(wr) <= mf.size
        /\ write_end(wr) <= MaxSize
        /\ write_end(wr) - mf.cur <= wr.count
        /\ wr.held <= mf.alloc /\ wr.held <= wr.before
        /\ mf.size = IF wr.before < write_end(wr) THEN write_end(wr) ELSE wr.before
    /\ mpc \in {"grow", "realloc"} => wr.before < mf.size /\ mf.alloc < mf.size
    /\ mpc = "copy" /\ starved => wr.held = mf.alloc /\ mf.alloc < wr.before
    /\ mpc = "idle" => wr.count = 0

\* The code takes the region for larger than it is only when starved.
MemoryOK ==
    /\ mf.size <= MaxSize
    /\ mpc \in {"idle", "copy"} =>
        /\ mf.size <= mf.region_size /\ mf.alloc <= mf.region_size
        /\ IF starved THEN mf.alloc < mf.size ELSE mf.region_size = mf.alloc
    /\ mpc = "realloc" => mf.size <= mf.region_size
    /\ mpc = "outside" => starved

\* What the last call says of where the file is.
RetOK ==
    /\ mpc = "closed" => ret.call = "close"
    /\ mpc \notin {"closed", "outside"} => ret.call \notin {"close", "undefined"}
    /\ mpc = "idle" /\ ret.call = "open" => ~starved
    /\ mpc = "idle" /\ ret.call = "write" /\ ret.count > 0 => mf.cur <= mf.alloc

IInv == MockTypeOK /\ WriteOK /\ MemoryOK /\ RetOK

----------------------------------------------------------------------------
(* A bounded sum is past the cursor, within the limit, and not further     *)
(* than asked.                                                             *)
LEMMA SafeAdd ==
    ASSUME NEW size \in Nat, NEW cur \in Nat, NEW off \in Nat \ {0},
           cur < size, size <= SizeMax
    PROVE  /\ size_safe_add(size, cur, off) \in Nat
           /\ cur < size_safe_add(size, cur, off)
           /\ size_safe_add(size, cur, off) <= size
           /\ size_safe_add(size, cur, off) - cur <= off
           /\ size_safe_add(size, cur, off) - cur =
                 IF off < size - cur THEN off ELSE size - cur
BY MockFileAssumption DEF size_safe_add, least

(* A relative offset leads inside the file.                                *)
LEMMA SafeOff ==
    ASSUME NEW size \in Nat, NEW cur \in Nat, NEW off \in Int
    PROVE  /\ off_safe_add(size, cur, off) \in Nat
           /\ off_safe_add(size, cur, off) <= size
BY MockFileAssumption DEF off_safe_add, least

(* A read returns what is left, up to the count.                           *)
LEMMA Readable ==
    ASSUME IInv, NEW count \in Nat
    PROVE  /\ readable(mf, count) \in Nat
           /\ readable(mf, count) =
                 IF mf.cur < mf.size
                 THEN IF count < mf.size - mf.cur THEN count ELSE mf.size - mf.cur
                 ELSE 0
<1>1. CASE mf.cur >= mf.size \/ count = 0
  BY <1>1 DEF readable, IInv, MockTypeOK
<1>2. CASE ~(mf.cur >= mf.size \/ count = 0)
  <2>1. mf.size \in Nat /\ mf.cur \in Nat /\ mf.cur < mf.size /\ mf.size <= SizeMax
    BY <1>2, MockFileAssumption DEF IInv, MockTypeOK, MemoryOK
  <2>2. readable(mf, count) = size_safe_add(mf.size, mf.cur, count) - mf.cur
    BY <1>2 DEF readable
  <2> QED
    BY <1>2, <2>1, <2>2, SafeAdd
<1> QED
  BY <1>1, <1>2

----------------------------------------------------------------------------
(* cr_mock_file_size makes a file that satisfies the invariant.            *)
LEMMA InitOK == MockInit => IInv
BY MockFileAssumption
   DEF MockInit, IInv, MockTypeOK, WriteOK, MemoryOK, RetOK, starved, NULL,
     Region, NoWrite

(* A write that is accepted ends past the cursor and within the limit.     *)
LEMMA WriteStarts == IInv /\ MockWrite => IInv'
<1> SUFFICES ASSUME IInv, MockWrite PROVE IInv'
  OBVIOUS
<1> USE DEF IInv
<1>1. PICK w \in Writes :
          /\ w.count # 0
          /\ wr' = [count |-> w.count, buf |-> w.buf, before |-> mf.size,
                    held |-> least(mf.size, mf.alloc)]
          /\ mf' = [mf EXCEPT !.size = IF @ < write_end(w) THEN write_end(w) ELSE @]
  BY DEF MockWrite
<1>2. w.count \in Nat \ {0} /\ w.buf \in [0 .. w.count - 1 -> Byte]
  BY <1>1, MockFileAssumption
<1>3. /\ mf.cur \in Nat /\ mf.size \in Nat /\ mf.cur < MaxSize
      /\ MaxSize \in Nat /\ MaxSize <= SizeMax
  BY MockFileAssumption DEF MockWrite, MockTypeOK
<1>4. /\ write_end(w) \in Nat /\ mf.cur < write_end(w)
      /\ write_end(w) <= MaxSize /\ write_end(w) - mf.cur <= w.count
  BY <1>2, <1>3, SafeAdd DEF write_end
<1>5. /\ mf'.size \in Nat /\ mf'.size <= MaxSize
      /\ write_end(w) <= mf'.size
      /\ mf'.size = IF mf.size < write_end(w) THEN write_end(w) ELSE mf.size
      /\ mf'.cur = mf.cur /\ mf'.region_size = mf.region_size
      /\ mf'.alloc = mf.alloc /\ mf'.mem = mf.mem /\ mf'.newptr = mf.newptr
  <2>1. mf'.size = IF mf.size < write_end(w) THEN write_end(w) ELSE mf.size
    BY <1>1 DEF MockTypeOK
  <2> QED
    BY <2>1, <1>1, <1>3, <1>4 DEF MemoryOK, MockTypeOK
<1>6. write_end(wr)' = write_end(w)
  BY <1>1, <1>5 DEF write_end
<1>7. mpc' = IF mf'.size > mf.region_size THEN "grow" ELSE "copy"
  BY DEF MockWrite
<1>8. /\ wr'.count = w.count /\ wr'.buf = w.buf /\ wr'.before = mf.size
      /\ wr'.held = (IF mf.alloc < mf.size THEN mf.alloc ELSE mf.size)
      /\ mf.alloc \in Nat /\ mf.region_size \in Nat /\ mf.newptr \in {0, 1}
      /\ mf.size <= mf.region_size /\ mf.alloc <= mf.region_size
      /\ IF starved THEN mf.alloc < mf.size ELSE mf.region_size = mf.alloc
  BY <1>1 DEF MemoryOK, MockTypeOK, MockWrite, least, NULL
<1>9. MockTypeOK'
  BY <1>2, <1>5, <1>7, <1>8 DEF MockTypeOK
<1>10. WriteOK'
  BY <1>2, <1>3, <1>4, <1>5, <1>6, <1>7, <1>8 DEF WriteOK, starved, NULL
<1>11. MemoryOK'
  BY <1>3, <1>4, <1>5, <1>7, <1>8 DEF MemoryOK, starved, NULL
<1>12. RetOK'
  BY <1>7 DEF RetOK, MockWrite
<1> QED
  BY <1>9, <1>10, <1>11, <1>12

(* One turn of the loop, and the allocation it leads to.                   *)
LEMMA GrowKeeps == IInv /\ Grow => IInv'
<1> SUFFICES ASSUME IInv, Grow PROVE IInv'
  OBVIOUS
<1>1. /\ mf'.region_size = half_again(mf.region_size)
      /\ mf'.size = mf.size /\ mf'.cur = mf.cur
      /\ mf'.alloc = mf.alloc /\ mf'.mem = mf.mem /\ mf'.newptr = mf.newptr
      /\ wr' = wr /\ ret' = ret
      /\ mpc = "grow"
      /\ mpc' = IF mf.size > mf'.region_size THEN "grow" ELSE "realloc"
  BY DEF Grow
<1>2. mf'.region_size \in Nat
  <2>1. mf.region_size * 3 \in Nat /\ SizeMax + 1 \in Nat \ {0}
    BY MockFileAssumption DEF IInv, MockTypeOK
  <2>2. (mf.region_size * 3) % (SizeMax + 1) \in Nat
    BY <2>1
  <2> QED
    BY <1>1, <2>2 DEF half_again
<1>3. write_end(wr)' = write_end(wr)
  BY <1>1 DEF write_end
<1> QED
  BY <1>1, <1>2, <1>3 DEF IInv, MockTypeOK, WriteOK, MemoryOK, RetOK, starved, NULL

LEMMA ReallocKeeps == IInv /\ Realloc => IInv'
<1> SUFFICES ASSUME IInv, Realloc PROVE IInv'
  OBVIOUS
<1>1. /\ mf'.alloc = mf.region_size /\ mf'.region_size = mf.region_size
      /\ mf'.size = mf.size /\ mf'.cur = mf.cur /\ mf'.newptr = 1
      /\ mf'.mem = [i \in 0 .. mf.region_size - 1 |->
                      IF i < mf.alloc THEN mf.mem[i] ELSE Uninit]
      /\ wr' = wr /\ mpc = "realloc" /\ mpc' = "copy" /\ ret' = ret
  BY DEF Realloc
<1>2. mf'.mem \in Region(mf'.alloc)
  BY <1>1 DEF IInv, MockTypeOK, Region
<1>3. write_end(wr)' = write_end(wr)
  BY <1>1 DEF write_end
<1>4. wr.held <= mf'.alloc
  BY <1>1 DEF IInv, MockTypeOK, WriteOK, MemoryOK
<1> QED
  BY <1>1, <1>2, <1>3, <1>4 DEF IInv, MockTypeOK, WriteOK, MemoryOK, RetOK, starved, NULL

(* A write without memory leaves a file that can be used and is starved.   *)
LEMMA FailEffect ==
    ASSUME IInv, ReallocFails
    PROVE  /\ mf'.size = mf.size /\ mf'.region_size = mf.region_size
           /\ mf'.cur = mf.cur /\ mf'.alloc = mf.alloc /\ mf'.mem = mf.mem
           /\ mf'.newptr = 0 /\ wr'.count = 0
           /\ mpc = "realloc" /\ mpc' = "idle"
           /\ ret' = [call |-> "no memory", given |-> wr.count]
           /\ ret'.call = "no memory"
<1>1. mf' = [mf EXCEPT !.newptr = 0]
  BY DEF ReallocFails, NULL
<1>6. /\ mpc = "realloc" /\ mpc' = "idle" /\ wr' = NoWrite
      /\ ret' = [call |-> "no memory", given |-> wr.count]
  BY DEF ReallocFails, NULL
<1>2. NoWrite.count = 0
  BY DEF NoWrite
<1>3. /\ mf'.size = mf.size /\ mf'.region_size = mf.region_size
      /\ mf'.cur = mf.cur /\ mf'.alloc = mf.alloc /\ mf'.mem = mf.mem
  BY <1>1
<1>4. mf'.newptr = 0
  BY <1>1
<1>5. ret'.call = "no memory"
  BY <1>6
<1> QED
  BY <1>2, <1>3, <1>4, <1>5, <1>6

LEMMA FailKeeps == IInv /\ ReallocFails => IInv'
<1> SUFFICES ASSUME IInv, ReallocFails PROVE IInv'
  OBVIOUS
<1>1. /\ mf'.size = mf.size /\ mf'.region_size = mf.region_size
      /\ mf'.cur = mf.cur /\ mf'.alloc = mf.alloc /\ mf'.mem = mf.mem
      /\ mf'.newptr = 0 /\ wr'.count = 0
      /\ mpc = "realloc" /\ mpc' = "idle" /\ ret'.call = "no memory"
  BY FailEffect
<1>2. MockTypeOK'
  BY <1>1 DEF IInv, MockTypeOK, NULL
<1>3. WriteOK'
  BY <1>1 DEF WriteOK
<1>4. MemoryOK'
  <2>1. /\ mf.size <= MaxSize /\ mf.size <= mf.region_size /\ mf.alloc < mf.size
        /\ mf.size \in Nat /\ mf.alloc \in Nat /\ mf.region_size \in Nat
    BY <1>1 DEF IInv, MockTypeOK, WriteOK, MemoryOK
  <2>2. starved'
    BY <1>1 DEF starved, NULL
  <2>3. mf.alloc <= mf.region_size
    BY <2>1
  <2> QED
    BY <1>1, <2>1, <2>2, <2>3 DEF MemoryOK
<1>5. RetOK'
  BY <1>1 DEF RetOK
<1> QED
  BY <1>2, <1>3, <1>4, <1>5 DEF IInv

(* What the copy of a write leaves.                                        *)
LEMMA CopyEffect ==
    ASSUME IInv, Copy
    PROVE  /\ mf'.cur = write_end(wr) /\ mf'.cur \in Nat
           /\ mf'.size = mf.size /\ mf'.region_size = mf.region_size
           /\ mf'.alloc = mf.alloc /\ mf'.newptr = mf.newptr
           /\ write_end(wr) <= mf.alloc
           /\ mf'.mem = [i \in 0 .. mf.alloc - 1 |->
                           IF i >= mf.cur /\ i < write_end(wr)
                           THEN wr.buf[i - mf.cur] ELSE mf.mem[i]]
           /\ mpc = "copy" /\ mpc' = "idle" /\ wr' = NoWrite
           /\ ret' = [call |-> "write", given |-> wr.count,
                      count |-> write_end(wr) - mf.cur, data |-> wr.buf]
<1>1. DOMAIN mf.mem = 0 .. mf.alloc - 1
  BY DEF IInv, MockTypeOK, Region
<1>2. write_end(wr) \in Nat
  <2>1. /\ mf.cur \in Nat /\ wr.count \in Nat \ {0}
        /\ MaxSize \in Nat /\ SizeMax \in Nat
    BY MockFileAssumption DEF IInv, MockTypeOK, Copy
  <2> QED
    BY <2>1, MockFileAssumption DEF write_end, size_safe_add, least
<1> QED
  BY <1>1, <1>2 DEF Copy

LEMMA CopyKeeps == IInv /\ Copy => IInv'
<1> SUFFICES ASSUME IInv, Copy PROVE IInv'
  OBVIOUS
<1>1. mf'.mem \in Region(mf'.alloc)
  <2>1. /\ mf.mem \in [0 .. mf.alloc - 1 -> Byte \cup {Uninit}]
        /\ mf.cur \in Nat /\ mf.alloc \in Nat /\ wr.count \in Nat
        /\ wr.buf \in [0 .. wr.count - 1 -> Byte]
        /\ write_end(wr) \in Nat /\ write_end(wr) - mf.cur <= wr.count
    BY CopyEffect DEF IInv, MockTypeOK, Region, WriteOK
  <2>2. ASSUME NEW i \in 0 .. mf.alloc - 1, i >= mf.cur, i < write_end(wr)
        PROVE  wr.buf[i - mf.cur] \in Byte
    <3>1. i - mf.cur \in 0 .. wr.count - 1
      BY <2>1, <2>2
    <3> QED
      BY <2>1, <3>1
  <2> QED
    BY ZenonT(60), <2>1, <2>2, CopyEffect DEF Region
<1>2. MemoryOK' /\ WriteOK' /\ RetOK'
  BY CopyEffect DEF IInv, MockTypeOK, MemoryOK, WriteOK, RetOK, starved, NULL, NoWrite
<1> QED
  BY <1>1, <1>2, CopyEffect DEF IInv, MockTypeOK

(* An access that leaves the memory is one of a starved file.              *)
LEMMA OutsideStarved ==
    ASSUME IInv, ReadOutside \/ CopyOutside
    PROVE  /\ starved /\ mpc' = "outside" /\ mf' = mf /\ wr' = wr
           /\ ret'.call = "undefined"
           /\ mf.alloc < ret'.reach /\ ret'.reach <= MaxSize
           /\ ret'.reach <= mf.size
<1>1. CASE ReadOutside
  <2>1. PICK count \in Counts : /\ ~has_bytes(mf, count)
                               /\ Undefined(mf.cur + readable(mf, count))
    BY <1>1 DEF ReadOutside
  <2>2. count \in Nat /\ mf.size \in Nat /\ mf.cur \in Nat /\ mf.alloc \in Nat
        /\ MaxSize \in Nat
    BY MockFileAssumption DEF IInv, MockTypeOK
  <2>3. /\ readable(mf, count) \in Nat
        /\ readable(mf, count) = 0 \/ mf.cur + readable(mf, count) <= mf.size
    BY <2>2, Readable
  <2>4. mf.alloc < mf.cur + readable(mf, count) /\ readable(mf, count) # 0
    BY <2>1, <2>2, <2>3 DEF has_bytes
  <2>5. mf.size <= MaxSize /\ mf.alloc < mf.size
    BY <2>2, <2>3, <2>4 DEF IInv, MemoryOK
  <2>6. starved
    BY <1>1, <2>2, <2>5 DEF ReadOutside, IInv, MemoryOK, MockTypeOK
  <2> QED
    BY <2>1, <2>2, <2>3, <2>4, <2>5, <2>6 DEF Undefined
<1>2. CASE CopyOutside
  <2>1. /\ mpc = "copy" /\ write_end(wr) > mf.alloc /\ Undefined(write_end(wr))
        /\ write_end(wr) <= mf.size /\ write_end(wr) <= MaxSize
    BY <1>2 DEF CopyOutside, IInv, WriteOK
  <2>2. mf.size \in Nat /\ mf.alloc \in Nat /\ write_end(wr) \in Nat
    <3>1. /\ mf.cur \in Nat /\ wr.count \in Nat \ {0}
          /\ MaxSize \in Nat /\ SizeMax \in Nat
      BY <2>1, MockFileAssumption DEF IInv, MockTypeOK
    <3> QED
      BY <3>1, MockFileAssumption
         DEF IInv, MockTypeOK, write_end, size_safe_add, least
  <2>3. starved
    BY <2>1, <2>2 DEF IInv, MemoryOK, MockTypeOK
  <2> QED
    BY <2>1, <2>2, <2>3 DEF Undefined
<1> QED
  BY <1>1, <1>2

LEMMA OutsideKeeps ==
    ASSUME IInv, ReadOutside \/ CopyOutside
    PROVE  IInv'
BY OutsideStarved DEF IInv, MockTypeOK, WriteOK, MemoryOK, RetOK, starved, NULL

(* Reading moves the cursor, and so does seeking, wherever it leads.       *)
LEMMA ReadKeeps ==
    ASSUME IInv, mpc = "idle", NEW count \in Nat, ReadCall(count),
           UNCHANGED <<mpc, wr>>
    PROVE  IInv'
<1>1. /\ mf'.cur = mf.cur + readable(mf, count)
      /\ mf'.size = mf.size /\ mf'.region_size = mf.region_size
      /\ mf'.alloc = mf.alloc /\ mf'.mem = mf.mem /\ mf'.newptr = mf.newptr
  BY DEF ReadCall, mock_file_read
<1>2. mf'.cur \in Nat
  BY <1>1, Readable DEF IInv, MockTypeOK
<1>3. ret'.call = "read"
  BY DEF ReadCall
<1> QED
  BY <1>1, <1>2, <1>3 DEF IInv, MockTypeOK, WriteOK, MemoryOK, RetOK, starved, NULL

LEMMA SeekEffect ==
    ASSUME IInv, NEW off \in Int, NEW whence \in {"SET", "CUR", "END"},
           SeekCall(off, whence)
    PROVE  /\ mf'.cur \in Nat
           /\ whence # "SET" => mf'.cur <= mf.size
           /\ mf'.size = mf.size /\ mf'.region_size = mf.region_size
           /\ mf'.alloc = mf.alloc /\ mf'.mem = mf.mem /\ mf'.newptr = mf.newptr
<1>1. /\ mf'.size = mf.size /\ mf'.region_size = mf.region_size
      /\ mf'.alloc = mf.alloc /\ mf'.mem = mf.mem /\ mf'.newptr = mf.newptr
      /\ mf'.cur = CASE whence = "SET" -> off % (SizeMax + 1)
                     [] whence = "CUR" -> off_safe_add(mf.size, mf.cur, off)
                     [] whence = "END" -> off_safe_add(mf.size, mf.size, off)
  BY DEF SeekCall, mock_file_seek
<1>2. mf.size \in Nat /\ mf.cur \in Nat
  BY DEF IInv, MockTypeOK
<1>3. off % (SizeMax + 1) \in Nat
  BY MockFileAssumption
<1> QED
  BY <1>1, <1>2, <1>3, SafeOff

LEMMA SeekKeeps ==
    ASSUME IInv, mpc = "idle", NEW off \in Int,
           NEW whence \in {"SET", "CUR", "END"}, SeekCall(off, whence),
           UNCHANGED <<mpc, wr>>
    PROVE  IInv'
<1>1. ret'.call = "seek"
  BY DEF SeekCall
<1> QED
  BY <1>1, SeekEffect DEF IInv, MockTypeOK, WriteOK, MemoryOK, RetOK, starved, NULL

LEMMA StepKeeps == IInv /\ [MockNext]_mockVars => IInv'
<1> SUFFICES ASSUME IInv, [MockNext]_mockVars PROVE IInv'
  OBVIOUS
<1>1. CASE MockRead
  <2>1. PICK count \in Counts : ReadCall(count)
    BY <1>1 DEF MockRead
  <2>2. count \in Nat
    BY MockFileAssumption
  <2> QED
    BY <1>1, <2>1, <2>2, ReadKeeps DEF MockRead
<1>2. CASE MockWriteRefused
  <2>1. /\ mpc = "idle" /\ UNCHANGED <<mf, mpc, wr>>
        /\ \/ ret'.call = "write" /\ ret'.count = 0
           \/ ret'.call = "full"
    BY <1>2 DEF MockWriteRefused
  <2> QED
    BY <2>1 DEF IInv, MockTypeOK, WriteOK, MemoryOK, RetOK, starved, NULL,
     write_end
<1>3. CASE MockWrite
  BY <1>3, WriteStarts
<1>4. CASE Grow
  BY <1>4, GrowKeeps
<1>5. CASE Realloc
  BY <1>5, ReallocKeeps
<1>6. CASE ReallocFails
  BY <1>6, FailKeeps
<1>7. CASE Copy
  BY <1>7, CopyKeeps
<1>8. CASE MockSeek
  <2>1. PICK off \in Offsets, whence \in {"SET", "CUR", "END"} :
            SeekCall(off, whence)
    BY <1>8 DEF MockSeek
  <2>2. off \in Int
    BY MockFileAssumption
  <2> QED
    BY <1>8, <2>1, <2>2, SeekKeeps DEF MockSeek
<1>9. CASE MockClose
  BY <1>9 DEF MockClose, IInv, MockTypeOK, WriteOK, MemoryOK, RetOK, starved, NULL
<1>10. CASE ReadOutside \/ CopyOutside
  BY <1>10, OutsideKeeps
<1>11. CASE UNCHANGED mockVars
  BY <1>11 DEF mockVars, IInv, MockTypeOK, WriteOK, MemoryOK, RetOK, starved, NULL,
     write_end
<1> QED
  BY <1>1, <1>2, <1>3, <1>4, <1>5, <1>6, <1>7, <1>8, <1>9, <1>10, <1>11 DEF MockNext

LEMMA Inductive == MockSpec => []IInv
BY InitOK, StepKeeps, PTL DEF MockSpec

(* Unless an allocation failed and none succeeded since, the mock reads    *)
(* and writes its own memory only, whatever is written, read and seeked    *)
(* to; failures or not, its size stays below max_size, and the file, its   *)
(* region and the write under way keep their types.                        *)
THEOREM MemorySafe == MockSpec => [](MockTypeOK /\ InBounds)
<1>1. IInv => MockTypeOK /\ InBounds
  BY DEF IInv, MockTypeOK, MemoryOK, InBounds
<1> QED
  BY <1>1, Inductive, PTL

----------------------------------------------------------------------------
(* The mock implements a file of bytes that may run out of memory.         *)

Contents == [i \in 0 .. Held - 1 |-> mf.mem[i]]
FileVars == <<Contents, Held, Length, mf.cur, ret>>

LEMMA FileVarsMap == File!fileVars = FileVars
BY DEF File!fileVars, FileVars, Contents

(* Between two calls the file holds its size, or its memory.               *)
LEMMA IdleHeld ==
    ASSUME IInv, mpc = "idle"
    PROVE  /\ Length = mf.size
           /\ Held = IF mf.alloc < mf.size THEN mf.alloc ELSE mf.size
           /\ mf.size \in Nat /\ mf.alloc \in Nat /\ mf.cur \in Nat
           /\ ret.call \notin {"close", "undefined"}
BY DEF IInv, MockTypeOK, WriteOK, RetOK, Length, Held, least

(* A write under way has not been seen.                                    *)
LEMMA WritingHeld ==
    ASSUME IInv, mpc \in {"grow", "realloc", "copy"}
    PROVE  /\ Length = wr.before /\ Held = wr.held
           /\ wr.before \in Nat /\ wr.held \in Nat /\ wr.count \in Nat \ {0}
           /\ ret.call \notin {"close", "undefined"}
           /\ write_end(wr) \in Nat /\ mf.cur \in Nat /\ mf.cur < MaxSize
           /\ write_end(wr) - mf.cur =
                 IF wr.count < MaxSize - mf.cur THEN wr.count ELSE MaxSize - mf.cur
<1>1. /\ mf.cur \in Nat /\ wr.count \in Nat \ {0}
      /\ MaxSize \in Nat /\ SizeMax \in Nat /\ MaxSize <= SizeMax
  BY MockFileAssumption DEF IInv, MockTypeOK
<1>2. write_end(wr) \in Nat
  BY <1>1, MockFileAssumption DEF write_end, size_safe_add, least
<1>3. mf.cur < write_end(wr) /\ write_end(wr) <= MaxSize
  BY DEF IInv, WriteOK
<1>4. mf.cur < MaxSize
  BY <1>1, <1>2, <1>3
<1>5. write_end(wr) - mf.cur =
         IF wr.count < MaxSize - mf.cur THEN wr.count ELSE MaxSize - mf.cur
  BY <1>1, <1>4, SafeAdd DEF write_end
<1> QED
  BY <1>1, <1>2, <1>4, <1>5 DEF IInv, MockTypeOK, RetOK, Length, Held

(* A write on its way is not seen before it is done.                       *)
LEMMA WriteUnseen == IInv /\ MockWrite => UNCHANGED FileVars
<1> SUFFICES ASSUME IInv, MockWrite PROVE UNCHANGED FileVars
  OBVIOUS
<1>1. PICK w \in Writes :
          /\ w.count # 0
          /\ wr' = [count |-> w.count, buf |-> w.buf, before |-> mf.size,
                    held |-> least(mf.size, mf.alloc)]
          /\ mf' = [mf EXCEPT !.size = IF @ < write_end(w) THEN write_end(w) ELSE @]
  BY DEF MockWrite
<1>2. mf'.cur = mf.cur /\ mf'.mem = mf.mem /\ ret' = ret
  BY <1>1 DEF MockWrite
<1>3. Length' = Length /\ Held' = Held
  BY <1>1 DEF MockWrite, Length, Held, IInv, WriteOK
<1> QED
  BY <1>2, <1>3 DEF FileVars, Contents

LEMMA GrowUnseen == IInv /\ Grow => UNCHANGED FileVars
<1> SUFFICES ASSUME IInv, Grow PROVE UNCHANGED FileVars
  OBVIOUS
<1>1. /\ mf'.cur = mf.cur /\ mf'.mem = mf.mem /\ mf'.size = mf.size
      /\ mf'.alloc = mf.alloc /\ ret' = ret /\ wr' = wr
  BY DEF Grow
<1> QED
  BY <1>1 DEF FileVars, Contents, Length, Held

LEMMA ReallocUnseen == IInv /\ Realloc => UNCHANGED FileVars
<1> SUFFICES ASSUME IInv, Realloc PROVE UNCHANGED FileVars
  OBVIOUS
<1>1. /\ mf'.cur = mf.cur /\ wr' = wr /\ ret' = ret /\ mpc = "realloc"
      /\ mf'.mem = [i \in 0 .. mf.region_size - 1 |->
                      IF i < mf.alloc THEN mf.mem[i] ELSE Uninit]
  BY DEF Realloc
<1>2. Length = wr.before /\ Held = wr.held /\ wr.held \in Nat /\ wr.count # 0
  BY <1>1, WritingHeld
<1>3. Length' = Length /\ Held' = Held
  BY <1>1, <1>2 DEF Length, Held
<1>4. /\ wr.held <= mf.alloc /\ wr.held <= mf.region_size
      /\ mf.alloc \in Nat /\ mf.region_size \in Nat
  BY <1>1, <1>2 DEF IInv, MockTypeOK, WriteOK, MemoryOK
<1>5. \A i \in 0 .. Held - 1 : mf'.mem[i] = mf.mem[i]
  BY <1>1, <1>2, <1>4
<1>6. Contents' = Contents
  BY <1>3, <1>5 DEF Contents
<1> QED
  BY <1>1, <1>3, <1>6 DEF FileVars

(* The copy is the write: as much as there is room for, where the cursor   *)
(* was, and every other byte left as it was.                               *)
LEMMA CopyWrites == IInv /\ Copy => File!Write
<1> SUFFICES ASSUME IInv, Copy PROVE File!Write
  OBVIOUS
<1> DEFINE end  == write_end(wr)
           keep == IF mf.alloc < mf.size THEN mf.alloc ELSE mf.size
<1>1. /\ mf.cur \in Nat /\ mf.size \in Nat /\ mf.alloc \in Nat
      /\ wr.count \in Nat \ {0} /\ wr.before \in Nat /\ wr.held \in Nat
      /\ wr.buf \in [0 .. wr.count - 1 -> Byte]
      /\ MaxSize \in Nat /\ MaxSize <= SizeMax /\ mf.newptr \in {0, 1}
  BY MockFileAssumption DEF Copy, IInv, MockTypeOK, NULL
<1>2. /\ mf.cur < end /\ end <= mf.size /\ end <= mf.alloc /\ mf.size <= MaxSize
      /\ mf.size = (IF wr.before < end THEN end ELSE wr.before)
      /\ wr.held <= mf.alloc /\ wr.held <= wr.before
      /\ starved => wr.held = mf.alloc /\ mf.alloc < wr.before
      /\ ~starved => mf.size <= mf.alloc
  BY CopyEffect DEF Copy, IInv, MockTypeOK, WriteOK, MemoryOK
<1>3. /\ end \in Nat /\ mf.cur < MaxSize /\ Length = wr.before /\ Held = wr.held
      /\ end - mf.cur = (IF wr.count < MaxSize - mf.cur
                         THEN wr.count ELSE MaxSize - mf.cur)
  BY WritingHeld DEF Copy
<1>4. Length' = mf.size /\ Held' = keep
  BY CopyEffect DEF Length, Held, NoWrite, least
<1>5. /\ mf'.cur = end
      /\ mf'.mem = [i \in 0 .. mf.alloc - 1 |->
                      IF i >= mf.cur /\ i < end THEN wr.buf[i - mf.cur] ELSE mf.mem[i]]
      /\ ret' = [call |-> "write", given |-> wr.count, count |-> end - mf.cur,
                 data |-> wr.buf]
  BY CopyEffect
<1>6. mf'.mem \in [0 .. mf.alloc - 1 -> Byte \cup {Uninit}]
  BY CopyKeeps, CopyEffect DEF IInv, MockTypeOK, Region
<1>7. /\ keep \in Nat /\ keep <= mf.alloc /\ keep <= mf.size /\ wr.held <= keep
      /\ end <= keep
      /\ wr.held = wr.before => keep = mf.size
  <2> HIDE DEF end
  <2> QED
    BY <1>1, <1>2, <1>3
<1> DEFINE new == [i \in 0 .. keep - 1 |-> mf'.mem[i]]
           old == [i \in 0 .. wr.held - 1 |-> mf.mem[i]]
<1> HIDE DEF keep
<1>9. new \in [0 .. keep - 1 -> Byte \cup {Uninit}]
  BY <1>1, <1>6, <1>7
<1>10. ASSUME NEW i \in 0 .. keep - 1
       PROVE  IF i \in mf.cur .. end - 1
              THEN new[i] = wr.buf[i - mf.cur]
              ELSE i < wr.held => new[i] = old[i]
  <2>1. i \in 0 .. mf.alloc - 1
    BY <1>1, <1>7
  <2>2. new[i] = IF i >= mf.cur /\ i < end THEN wr.buf[i - mf.cur] ELSE mf.mem[i]
    BY <2>1, <1>5
  <2>3. i < wr.held => old[i] = mf.mem[i]
    BY <1>1, <1>7
  <2> QED
    BY <1>1, <1>3, <1>7, <2>2, <2>3
<1>11. mf.size = File!Most(wr.before, end)
  BY <1>1, <1>2, <1>3 DEF File!Most
<1>12. end - mf.cur = File!Least(wr.count, MaxSize - mf.cur) /\ end - mf.cur > 0
  BY <1>1, <1>2, <1>3 DEF File!Least
<1>13. end = mf.cur + (end - mf.cur)
  BY <1>1, <1>3
<1>14. Contents' = new /\ Contents = old
  BY <1>3, <1>4 DEF Contents
<1> HIDE DEF new, old, end
<1>15. /\ Contents' \in File!Bytes(Held')
       /\ \A i \in 0 .. Held' - 1 :
             IF i \in mf.cur .. mf'.cur - 1
             THEN Contents'[i] = ret'.data[i - mf.cur]
             ELSE i < Held => Contents'[i] = Contents[i]
  BY <1>3, <1>4, <1>5, <1>9, <1>10, <1>14 DEF File!Bytes
<1>16. /\ ret'.call = "write" /\ ret'.count > 0
       /\ ret'.count = File!Least(ret'.given, MaxSize - mf.cur)
       /\ mf'.cur = mf.cur + ret'.count
  BY <1>5, <1>12, <1>13
<1>17. Length' = File!Most(Length, mf'.cur)
  BY <1>3, <1>4, <1>5, <1>11
<1>18. /\ Held <= Held' /\ mf'.cur <= Held' /\ Held' <= Length'
       /\ Held = Length => Held' = Length'
  BY <1>3, <1>4, <1>5, <1>7
<1> QED
  BY <1>3, <1>15, <1>16, <1>17, <1>18 DEF File!Write, Contents

(* A read gets the bytes from the cursor on.                               *)
LEMMA ReadReads ==
    ASSUME IInv, mpc = "idle", NEW count \in Nat, has_bytes(mf, count),
           ReadCall(count), UNCHANGED <<mpc, wr>>
    PROVE  File!Read
<1>1. /\ mf'.cur = mf.cur + readable(mf, count)
      /\ mf'.size = mf.size /\ mf'.mem = mf.mem /\ mf'.alloc = mf.alloc
      /\ ret' = [call |-> "read", asked |-> count,
                 data |-> [i \in 0 .. readable(mf, count) - 1 |-> mf.mem[mf.cur + i]]]
  BY DEF ReadCall, mock_file_read, read_data
<1>2. /\ Length = mf.size /\ mf.cur \in Nat /\ mf.size \in Nat /\ mf.alloc \in Nat
      /\ Held = IF mf.alloc < mf.size THEN mf.alloc ELSE mf.size
  BY IdleHeld
<1>3. Length' = Length /\ Held' = Held
  BY <1>1 DEF Length, Held
<1> DEFINE got == IF mf.cur < Length THEN File!Least(count, Length - mf.cur) ELSE 0
<1>4. got = readable(mf, count) /\ got \in Nat /\ (mf.cur + got <= mf.size \/ got = 0)
  BY <1>2, Readable DEF File!Least
<1>5. got > 0 => mf.cur + got <= Held
  BY <1>2, <1>4 DEF has_bytes
<1>6. [i \in 0 .. got - 1 |-> Contents[mf.cur + i]]
         = [i \in 0 .. got - 1 |-> mf.mem[mf.cur + i]]
  BY <1>2, <1>4, <1>5 DEF Contents
<1>7. Contents' = Contents
  BY <1>1, <1>3 DEF Contents
<1> HIDE DEF got
<1>8. /\ ret'.call = "read" /\ ret'.asked = count
      /\ ret'.data = [i \in 0 .. got - 1 |-> Contents[mf.cur + i]]
      /\ mf'.cur = mf.cur + got
  BY <1>1, <1>4, <1>6
<1> QED
  BY <1>3, <1>5, <1>7, <1>8 DEF File!Read, Contents, got

LEMMA SeekSeeks ==
    ASSUME IInv, mpc = "idle", NEW off \in Int,
           NEW whence \in {"SET", "CUR", "END"}, SeekCall(off, whence),
           UNCHANGED <<mpc, wr>>
    PROVE  File!Seek
<1>1. /\ whence # "SET" => mf'.cur <= mf.size
      /\ mf'.size = mf.size /\ mf'.mem = mf.mem /\ mf'.alloc = mf.alloc
  BY SeekEffect
<1>2. Length = mf.size /\ Length' = Length /\ Held' = Held
  BY <1>1, IdleHeld DEF Length, Held
<1>3. ret'.call = "seek" /\ ret'.whence = whence /\ ret'.at = mf'.cur
  BY DEF SeekCall
<1> QED
  BY <1>1, <1>2, <1>3 DEF File!Seek

(* A call that is refused changes nothing.                                 *)
LEMMA RefusedWritesNothing ==
    ASSUME IInv, MockWriteRefused
    PROVE  File!WriteNothing
<1>1. mf' = mf /\ wr' = wr
  BY DEF MockWriteRefused
<1>2. Length' = Length /\ Held' = Held
  BY <1>1 DEF Length, Held
<1>3. \/ ret'.call = "write" /\ ret'.given = 0
      \/ ret'.call = "full" /\ mf.cur >= MaxSize
  <2>1. PICK w \in Writes :
            \/ /\ w.count = 0
               /\ ret' = [call |-> "write", given |-> 0, count |-> 0]
            \/ /\ w.count # 0 /\ mf.cur >= MaxSize
               /\ ret' = [call |-> "full"]
    BY DEF MockWriteRefused
  <2>2. CASE ret' = [call |-> "write", given |-> 0, count |-> 0]
    BY <2>2
  <2>3. CASE mf.cur >= MaxSize /\ ret' = [call |-> "full"]
    BY <2>3
  <2> QED
    BY <2>1, <2>2, <2>3
<1> QED
  BY <1>1, <1>2, <1>3 DEF File!WriteNothing

(* A write without memory: the length is there, the bytes are not.         *)
LEMMA FailRunsOut == IInv /\ ReallocFails => File!NoMemory
<1> SUFFICES ASSUME IInv, ReallocFails PROVE File!NoMemory
  OBVIOUS
<1>1. /\ mf'.size = mf.size /\ mf'.alloc = mf.alloc /\ mf'.mem = mf.mem
      /\ mf'.cur = mf.cur /\ wr'.count = 0 /\ mpc = "realloc"
      /\ ret' = [call |-> "no memory", given |-> wr.count]
  BY FailEffect
<1>2. /\ mf.size \in Nat /\ mf.alloc \in Nat /\ MaxSize \in Nat
      /\ mf.mem \in [0 .. mf.alloc - 1 -> Byte \cup {Uninit}]
      /\ wr.before < mf.size /\ mf.alloc < mf.size /\ wr.held <= mf.alloc
      /\ mf.size = (IF wr.before < write_end(wr) THEN write_end(wr) ELSE wr.before)
  BY <1>1, MockFileAssumption DEF IInv, MockTypeOK, WriteOK, Region
<1>3. /\ Length = wr.before /\ Held = wr.held
      /\ wr.before \in Nat /\ wr.held \in Nat /\ wr.count \in Nat
      /\ write_end(wr) \in Nat /\ mf.cur \in Nat /\ mf.cur < MaxSize
      /\ write_end(wr) - mf.cur =
            IF wr.count < MaxSize - mf.cur THEN wr.count ELSE MaxSize - mf.cur
  BY <1>1, WritingHeld
<1>4. Length' = mf.size /\ Held' = mf.alloc
  BY <1>1, <1>2 DEF Length, Held, least
<1>5. mf.size = mf.cur + File!Least(wr.count, MaxSize - mf.cur)
  BY <1>2, <1>3 DEF File!Least
<1>6. Contents' \in [0 .. mf.alloc - 1 -> Byte \cup {Uninit}]
  BY <1>1, <1>2, <1>4 DEF Contents
<1>7. \A i \in 0 .. wr.held - 1 : Contents'[i] = Contents[i]
  <2>1. \A i \in 0 .. wr.held - 1 : i \in 0 .. mf.alloc - 1
    BY <1>2, <1>3
  <2>2. /\ Contents' = [i \in 0 .. mf.alloc - 1 |-> mf.mem[i]]
        /\ Contents = [i \in 0 .. wr.held - 1 |-> mf.mem[i]]
    BY <1>1, <1>3, <1>4 DEF Contents
  <2> QED
    BY <2>1, <2>2
<1> QED
  BY <1>1, <1>2, <1>3, <1>4, <1>5, <1>6, <1>7 DEF File!NoMemory, File!Bytes, Contents

(* An access outside is one of bytes that only the length counts.          *)
LEMMA OutsideUndefined ==
    ASSUME IInv, ReadOutside \/ CopyOutside
    PROVE  File!Undefined
<1>1. /\ starved /\ mf' = mf /\ wr' = wr /\ ret'.call = "undefined"
      /\ mf.alloc < ret'.reach /\ ret'.reach <= MaxSize
  BY OutsideStarved
<1>2. UNCHANGED <<Contents, Held, Length, mf.cur>>
  BY <1>1 DEF Contents, Held, Length
<1>3. Held = mf.alloc /\ mf.alloc < Length
  <2>1. CASE ReadOutside
    BY <1>1, <2>1, IdleHeld DEF ReadOutside, IInv, MemoryOK
  <2>2. CASE CopyOutside
    BY <1>1, <2>2, WritingHeld DEF CopyOutside, IInv, WriteOK
  <2> QED
    BY <2>1, <2>2
<1> QED
  BY <1>1, <1>2, <1>3 DEF File!Undefined, Contents

LEMMA StepMaps == IInv /\ [MockNext]_mockVars => [File!Next]_(File!fileVars)
<1> SUFFICES ASSUME IInv, [MockNext]_mockVars PROVE File!Next \/ UNCHANGED FileVars
  BY FileVarsMap DEF File!fileVars, FileVars, Contents
<1>1. CASE MockRead
  <2>1. PICK count \in Counts : has_bytes(mf, count) /\ ReadCall(count)
    BY <1>1 DEF MockRead
  <2>2. count \in Nat
    BY MockFileAssumption
  <2> QED
    BY <1>1, <2>1, <2>2, ReadReads, IdleHeld DEF MockRead, File!Next
<1>2. CASE MockWriteRefused
  BY <1>2, RefusedWritesNothing, IdleHeld DEF MockWriteRefused, File!Next
<1>3. CASE MockWrite
  BY <1>3, WriteUnseen
<1>4. CASE Grow
  BY <1>4, GrowUnseen
<1>5. CASE Realloc
  BY <1>5, ReallocUnseen
<1>6. CASE Copy
  BY <1>6, CopyWrites, WritingHeld DEF Copy, File!Next
<1>7. CASE MockSeek
  <2>1. PICK off \in Offsets, whence \in {"SET", "CUR", "END"} :
            SeekCall(off, whence)
    BY <1>7 DEF MockSeek
  <2>2. off \in Int
    BY MockFileAssumption
  <2> QED
    BY <1>7, <2>1, <2>2, SeekSeeks, IdleHeld DEF MockSeek, File!Next
<1>8. CASE MockClose
  <2>1. mf' = mf /\ wr' = wr /\ ret'.call = "close"
    BY <1>8 DEF MockClose
  <2> QED
    BY <1>8, <2>1, IdleHeld DEF MockClose, File!Close, File!Next, Length, Held
<1>9. CASE ReallocFails
  BY <1>9, FailRunsOut, WritingHeld DEF ReallocFails, File!Next
<1>10. CASE ReadOutside \/ CopyOutside
  BY <1>10, OutsideUndefined, IdleHeld, WritingHeld
     DEF ReadOutside, CopyOutside, File!Next
<1>11. CASE UNCHANGED mockVars
  BY <1>11 DEF mockVars, FileVars, Contents, Length, Held
<1> QED
  BY <1>1, <1>2, <1>3, <1>4, <1>5, <1>6, <1>7, <1>8, <1>9, <1>10, <1>11 DEF MockNext

(* The file a test gets from cr_mock_file_size behaves as a file of at     *)
(* most max_size bytes, although its bytes move whenever it grows, and a   *)
(* write may be refused, cut short or fail; a write that fails makes it    *)
(* longer than what it holds, and only then is an access undefined.        *)
THEOREM Refinement == MockSpec => ImplementsByteFile
<1>1. MockInit => File!Init
  <2> SUFFICES ASSUME MockInit PROVE File!Init
    OBVIOUS
  <2>1. Length = 0 /\ Held = 0 /\ mf.cur = 0 /\ ret = [call |-> "open"]
    BY MockFileAssumption DEF MockInit, Length, Held, NoWrite, least
  <2>2. Contents \in [0 .. 0 - 1 -> Byte \cup {Uninit}]
    BY <2>1 DEF Contents
  <2> QED
    BY <2>1, <2>2 DEF File!Init, File!Bytes, Contents
<1> QED
  BY <1>1, Inductive, StepMaps, PTL DEF MockSpec, ImplementsByteFile, File!Spec

----------------------------------------------------------------------------
(* The redirections.                                                       *)

Number  == 0 .. NbFds - 1
Outputs == {CR_STDOUT, CR_STDERR}
Comparing == {"compare", "drain"}

PipeRec   == [data : Seq(Byte), noblock : BOOLEAN]
Object(n) == {Closed} \cup {Terminal(k) : k \in StdFd}
                \cup {ReadEnd(p) : p \in 1 .. n} \cup {WriteEnd(p) : p \in 1 .. n}

\* The end of pipe p that replaces stream k, and the one the process keeps.
Inner(k, p) == IF k = CR_STDIN THEN ReadEnd(p) ELSE WriteEnd(p)
Outer(k, p) == IF k = CR_STDIN THEN WriteEnd(p) ELSE ReadEnd(p)
outer(k)    == redir[k][outer_end(k)]

Types ==
    /\ fds \in [Number -> Object(Len(pipes))]
    /\ pipes \in Seq(PipeRec)
    /\ redir \in [StdFd -> Nat \X Nat]
    /\ files \in [StdFd -> Int]
    /\ outbuf \in Seq(Byte)
    /\ sent \in [StdFd -> Seq(Byte)] /\ lost \subseteq Outputs

\* A stream that was not redirected is the terminal; the number kept of one
\* that was is the other end of its pipe until it is closed.
Kept(k) ==
    /\ outer(k) \in Number \ StdFd
    /\ fds[outer(k)] = Outer(k, PipeOf(k))
    /\ files[k] \in {NoFile, outer(k)}
Table(k) ==
    /\ ~Redirected(k) => fds[k] = Terminal(k) /\ files[k] = NoFile
    /\ Redirected(k) => /\ PipeOf(k) \in 1 .. Len(pipes)
                        /\ fds[k] = Inner(k, PipeOf(k))
                        /\ files[k] # Dangling => Kept(k)

\* No end is open twice, and no pipe serves two streams.
Apart ==
    /\ \A m, n \in Number : m # n /\ fds[m] = fds[n] => fds[m] = Closed
    /\ \A j, k \in StdFd :
          j # k /\ Redirected(j) /\ Redirected(k) => PipeOf(j) # PipeOf(k)

\* A comparison reads a file that is open; without one there is no cmp.
Compares ==
    /\ tpc = "boot" <=> ~Redirected(CR_STDIN)
    /\ tpc \in Comparing => /\ "fd" \in DOMAIN cmp /\ cmp.fd \in Outputs
                            /\ Redirected(cmp.fd) /\ files[cmp.fd] = outer(cmp.fd)
    /\ tpc \notin Comparing => cmp = NoCmp

Ends == Types /\ (\A k \in StdFd : Table(k)) /\ Apart /\ Compares

\* What a pipe holds of a text, when bytes were dropped and when not: those
\* that came when it was full.
Holds(data, text, dropped) ==
    /\ Len(data) <= Len(text) /\ data = SubSeq(text, 1, Len(data))
    /\ IF dropped THEN Len(data) = Capacity ELSE data = text

\* A stream that is watched: its other end is open, or the test reads it, and
\* no comparison empties it. What a redirection that failed flushed is lost.
Watched(k) ==
    /\ Redirected(k)
    /\ files[k] # Dangling \/ (k = CR_STDIN /\ tpc = "read")
    /\ ~(tpc \in Comparing /\ cmp.fd = k)
    /\ ~(tpc = "failed" /\ k = CR_STDOUT)
Streams ==
    /\ \A p \in 1 .. Len(pipes) : Len(pipes[p].data) <= Capacity
    /\ \A k \in StdFd :
          Watched(k) => Holds(pipes[PipeOf(k)].data, sent[k], k \in lost)

\* t is what follows the first n elements of s.
Suffix(t, n, s) ==
    /\ n \in 0 .. Len(s) /\ Len(t) = Len(s) - n
    /\ \A i \in 1 .. Len(t) : t[i] = s[n + i]

\* A comparison with a text: the output s and the text agree on what was read
\* as long as it matches, and nothing is left to read at its end.
StrCmp == [fd : Outputs, how : {"str"}, want : Seq(Byte), rest : Seq(Byte),
           matches : BOOLEAN]
StrSoFar(s) ==
    /\ ~cmp.matches => cmp.want # s
    /\ cmp.matches => \E n \in 0 .. Len(s) :
          /\ Suffix(input, n, s) /\ Suffix(cmp.rest, n, cmp.want)
          /\ \A i \in 1 .. n : cmp.want[i] = s[i]
    /\ tpc = "drain" /\ cmp.matches => input = <<>>

\* A comparison with a file: the cursor is as far as the output. Only the last
\* block says whether they match, so that the answer is right when it is the
\* only one, and when they are equal.
Reference  == [i \in 1 .. mf.size |-> mf.mem[i - 1]]
FileCmp == [fd : Outputs, how : {"file"}, orig : Nat, want : {Reference},
            matches : BOOLEAN]
FileSoFar(s) ==
    /\ tpc = "compare" => \E n \in 0 .. Len(s) :
          /\ Suffix(input, n, s) /\ mf.cur = n
          /\ s = cmp.want => (cmp.matches <=> n > 0)
          /\ n = 0 => ~cmp.matches
          /\ n > 0 /\ Len(s) < Block => input = <<>>
    /\ tpc = "drain" /\ s = cmp.want /\ s # <<>> => cmp.matches
    /\ cmp.matches /\ Len(s) < Block /\ Len(cmp.want) < Block => s = cmp.want

Compared ==
    tpc \in Comparing =>
       \/ /\ cmp \in StrCmp
          /\ cmp.fd \notin lost => StrSoFar(sent[cmp.fd])
       \/ /\ cmp \in FileCmp /\ mpc = "idle"
          /\ cmp.fd \notin lost => FileSoFar(sent[cmp.fd])

\* A test that redirects an output has a reference that is all there.
Prepared == \A k \in Outputs : Redirected(k) => mf.size <= mf.alloc

----------------------------------------------------------------------------
(* What is open at a number.                                               *)

(* The ends of pipes and the terminal are told apart, and from what is     *)
(* closed.                                                                 *)
LEMMA Objects ==
    ASSUME NEW p, NEW q
    PROVE  /\ ReadEnd(p) = ReadEnd(q) => p = q
           /\ WriteEnd(p) = WriteEnd(q) => p = q
           /\ ReadEnd(p) # WriteEnd(q)
           /\ ReadEnd(p) # Closed /\ WriteEnd(p) # Closed /\ Terminal(p) # Closed
           /\ ReadEnd(p) # Terminal(q) /\ WriteEnd(p) # Terminal(q)
           /\ Terminal(p) = Terminal(q) => p = q
           /\ ReadEnd(p)[2] = p /\ WriteEnd(p)[2] = p
           /\ ReadEnd(p)[1] = "r" /\ WriteEnd(p)[1] = "w" /\ Terminal(p)[1] # "w"
<1>1. Len(Closed) = 1 /\ Len(ReadEnd(p)) = 2 /\ Len(WriteEnd(p)) = 2
      /\ Len(Terminal(p)) = 2
  BY DEF Closed, ReadEnd, WriteEnd, Terminal
<1>2. ReadEnd(p) # Closed /\ WriteEnd(p) # Closed /\ Terminal(p) # Closed
  BY <1>1
<1>3. /\ ReadEnd(p)[1] = "r" /\ WriteEnd(p)[1] = "w" /\ Terminal(p)[1] = "terminal"
      /\ ReadEnd(p)[2] = p /\ WriteEnd(p)[2] = p /\ Terminal(p)[2] = p
      /\ ReadEnd(q)[1] = "r" /\ WriteEnd(q)[1] = "w" /\ Terminal(q)[1] = "terminal"
      /\ ReadEnd(q)[2] = q /\ WriteEnd(q)[2] = q /\ Terminal(q)[2] = q
  BY DEF ReadEnd, WriteEnd, Terminal
<1>4. "r" # "w" /\ "r" # "terminal" /\ "w" # "terminal"
  OBVIOUS
<1> QED
  BY <1>2, <1>3, <1>4

(* So are the two ends of a pipe.                                          *)
LEMMA InnerOuter ==
    ASSUME NEW k \in StdFd, NEW j \in StdFd, NEW p, NEW q
    PROVE  /\ Inner(k, p) # Closed /\ Outer(k, p) # Closed
           /\ Inner(k, p) # Outer(k, q)
           /\ Inner(k, p)[2] = p /\ Outer(k, p)[2] = p
           /\ Inner(j, p) # Terminal(q)
           /\ Inner(k, p) = Inner(j, q) => p = q
           /\ Outer(k, p) = Outer(j, q) => p = q
           /\ Inner(k, p) = Outer(j, q) => p = q
           /\ Inner(k, p)[1] = "w" <=> k # CR_STDIN
BY Objects DEF Inner, Outer

----------------------------------------------------------------------------
(* pipe(2) and file_std_redirect.                                          *)

(* A table with a free number has a lowest one.                            *)
LEMMA Lowest ==
    ASSUME NEW f \in [Number -> UNION {Object(n) : n \in Nat}], free(f) # {}
    PROVE  lowest(f) \in free(f) /\ lowest(f) \in Number
<1>1. free(f) \subseteq Nat /\ free(f) \subseteq Number
  BY RedirectAssumption DEF free, Number
<1>2. \E x \in free(f) : \A y \in free(f) : x <= y
  <2>1. PICK x \in free(f) : \A y \in free(f) : <<y, x>> \notin OpToRel(<, Nat)
    BY <1>1, NatLessThanWellFounded, WFMin
  <2>2. \A y \in free(f) : ~(y < x)
    BY <1>1, <2>1 DEF OpToRel
  <2> QED
    BY <1>1, <2>2
<1> QED
  BY <1>1, <1>2 DEF lowest, Min

(* Two free numbers become the two ends of a new pipe, read end first.     *)
LEMMA PipeOpens ==
    ASSUME NEW f \in [Number -> UNION {Object(n) : n \in Nat}],
           ~no_pipe(f), NEW p \in Nat \ {0}
    PROVE  \E r, w \in Number :
              /\ r # w /\ f[r] = Closed /\ f[w] = Closed
              /\ pipe_fds(f, p) = <<r, w>>
              /\ pipe(f, p) = [f EXCEPT ![r] = ReadEnd(p), ![w] = WriteEnd(p)]
<1> DEFINE r == lowest(f)
           g == open(f, ReadEnd(p))
           w == lowest(g)
<1>1. IsFiniteSet(free(f)) /\ Cardinality(free(f)) \in Nat
      /\ Cardinality(free(f)) >= 2
  <2>1. IsFiniteSet(Number)
    BY RedirectAssumption, FS_Interval DEF Number
  <2>2. free(f) \in SUBSET Number
    BY DEF free
  <2>3. IsFiniteSet(free(f))
    BY <2>1, <2>2, FS_Subset
  <2>4. Cardinality(free(f)) \in Nat
    BY <2>3, FS_CardinalityType
  <2> QED
    BY <2>3, <2>4 DEF no_pipe
<1>2. free(f) # {}
  BY <1>1, FS_EmptySet
<1>3. r \in Number /\ f[r] = Closed
  BY <1>2, Lowest DEF free
<1>4. g = [f EXCEPT ![r] = ReadEnd(p)]
  BY DEF open
<1>5. g \in [Number -> UNION {Object(n) : n \in Nat}]
  <2>1. ReadEnd(p) \in Object(p)
    BY DEF Object
  <2>2. ReadEnd(p) \in UNION {Object(n) : n \in Nat}
    BY <2>1
  <2> HIDE DEF r, g
  <2> QED
    BY <1>4, <2>2
<1>6. free(g) = free(f) \ {r}
  <2> HIDE DEF r, g
  <2> QED
    BY <1>3, <1>4, Objects DEF free
<1>7. free(f) \ {r} # {}
  <2> HIDE DEF r
  <2> SUFFICES ASSUME free(f) \ {r} = {} PROVE FALSE
    OBVIOUS
  <2>1. free(f) = {r}
    BY <1>2
  <2>2. Cardinality({r}) = 1
    BY FS_Singleton
  <2> QED
    BY <1>1, <2>1, <2>2
<1> HIDE DEF g, r
<1>8. w \in free(g) /\ w \in Number
  BY <1>5, <1>6, <1>7, Lowest
<1> HIDE DEF w
<1>9. w # r /\ f[w] = Closed
  BY <1>6, <1>8 DEF free
<1>10. pipe_fds(f, p) = <<r, w>>
  BY DEF pipe_fds, r, w, g
<1>11. pipe(f, p) = [g EXCEPT ![w] = WriteEnd(p)]
  BY DEF pipe, open, w, g
<1> QED
  BY <1>3, <1>4, <1>8, <1>9, <1>10, <1>11

(* One end takes the place of a stream, the other is kept, and nothing     *)
(* else changes (pipe, file_std_redirect).                                 *)
LEMMA RedirectEffect ==
    ASSUME Ends, NEW k \in StdFd, ~no_pipe(fds), NEW p \in Nat \ {0}
    PROVE  LET handle == pipe_fds(fds, p)
               table  == pipe_std_redirect(pipe(fds, p), handle, k)
               i      == handle[inner_end(k)]
               o      == handle[outer_end(k)]
           IN  /\ handle \in Nat \X Nat /\ handle # <<0, 0>>
               /\ i \in Number \ StdFd /\ o \in Number \ StdFd /\ i # o
               /\ fds[i] = Closed /\ fds[o] = Closed
               /\ DOMAIN table = Number
               /\ \A n \in Number :
                     table[n] = IF n = k THEN Inner(k, p)
                                ELSE IF n = o THEN Outer(k, p)
                                ELSE IF n = i THEN Closed ELSE fds[n]
<1>1. fds \in [Number -> UNION {Object(n) : n \in Nat}]
  BY DEF Ends, Types
<1>2. PICK r, w \in Number :
         /\ r # w /\ fds[r] = Closed /\ fds[w] = Closed
         /\ pipe_fds(fds, p) = <<r, w>>
         /\ pipe(fds, p) = [fds EXCEPT ![r] = ReadEnd(p), ![w] = WriteEnd(p)]
  BY <1>1, PipeOpens
<1>3. StdFd \subseteq Number /\ Number \subseteq Nat
  BY RedirectAssumption DEF StdFd, Number, CR_STDIN, CR_STDOUT, CR_STDERR
<1>4. ASSUME NEW j \in StdFd PROVE fds[j] # Closed
  <2>1. CASE Redirected(j)
    BY <2>1, InnerOuter DEF Ends, Table
  <2>2. CASE ~Redirected(j)
    BY <2>2, Objects DEF Ends, Table
  <2> QED
    BY <2>1, <2>2
<1>5. r \notin StdFd /\ w \notin StdFd
  BY <1>2, <1>4
<1>6. <<r, w>> # <<0, 0>>
  BY <1>5 DEF StdFd, CR_STDIN
<1> DEFINE f == pipe(fds, p)
           handle == <<r, w>>
           i == handle[inner_end(k)]
           o == handle[outer_end(k)]
           table == pipe_std_redirect(f, handle, k)
<1>7. /\ i \in Number \ StdFd /\ o \in Number \ StdFd /\ i # o
      /\ fds[i] = Closed /\ fds[o] = Closed
      /\ k = CR_STDIN => i = r /\ o = w
      /\ k # CR_STDIN => i = w /\ o = r
  BY <1>2, <1>5 DEF inner_end, outer_end
<1>8. f \in [Number -> UNION {Object(n) : n \in Nat}]
      /\ f[i] = Inner(k, p) /\ f[o] = Outer(k, p)
      /\ \A n \in Number \ {i, o} : f[n] = fds[n]
  <2>1. ReadEnd(p) \in Object(p) /\ WriteEnd(p) \in Object(p)
    BY DEF Object
  <2>2. ReadEnd(p) \in UNION {Object(n) : n \in Nat}
        /\ WriteEnd(p) \in UNION {Object(n) : n \in Nat}
    BY <2>1
  <2> HIDE DEF i, o
  <2> QED
    BY <1>1, <1>2, <1>7, <2>2 DEF Inner, Outer
<1> HIDE DEF i, o, f, handle
<1>9. table = close(dup2(close(f, k), i, k), i)
  BY DEF pipe_std_redirect, file_std_redirect, i
<1>10. close(f, k)[i] = f[i] /\ f[i] # Closed
  BY <1>7, <1>8, InnerOuter DEF close
<1>11. dup2(close(f, k), i, k) = [close(f, k) EXCEPT ![k] = f[i]]
  BY <1>10 DEF dup2
<1>12. k \in Number /\ k # i /\ k # o
  BY <1>3, <1>7
<1>13. table = [[[f EXCEPT ![k] = Closed] EXCEPT ![k] = f[i]] EXCEPT ![i] = Closed]
  BY <1>9, <1>11 DEF close
<1>14. DOMAIN table = Number
  BY <1>8, <1>13
<1>15. ASSUME NEW n \in Number
       PROVE  table[n] = IF n = k THEN Inner(k, p)
                         ELSE IF n = o THEN Outer(k, p)
                         ELSE IF n = i THEN Closed ELSE fds[n]
  BY <1>7, <1>8, <1>12, <1>13
<1>16. handle \in Nat \X Nat /\ handle # <<0, 0>>
  BY <1>3, <1>6 DEF handle
<1> QED
  BY <1>2, <1>7, <1>14, <1>15, <1>16 DEF handle, f, i, o

----------------------------------------------------------------------------
(* The ends stay where cr_redirect put them.                               *)

(* What the pipes hold is bytes, and stdout writes to none or to its own.  *)
LEMMA Flushes ==
    ASSUME Ends, NEW k \in StdFd
    PROVE  /\ flushed(k) \in Seq(PipeRec) /\ Len(flushed(k)) = Len(pipes)
           /\ \A p \in 1 .. Len(pipes) :
                 k # CR_STDOUT \/ ~Redirected(k) \/ p # PipeOf(k) =>
                    flushed(k)[p] = pipes[p]
<1>1. CASE k = CR_STDOUT /\ IsWriteEnd(k)
  <2>1. Redirected(k) /\ PipeOf(k) \in 1 .. Len(pipes)
    BY <1>1, Objects DEF Ends, Table, IsWriteEnd
  <2>2. pipes \in Seq(PipeRec) /\ outbuf \in Seq(Byte)
    BY DEF Ends, Types
  <2> DEFINE d == pipes[PipeOf(k)].data
             n == least(Len(outbuf), Capacity - Len(d))
  <2>3. pipes[PipeOf(k)] \in PipeRec /\ d \in Seq(Byte)
    <3> HIDE DEF d
    <3>1. pipes[PipeOf(k)] \in PipeRec
      BY <2>1, <2>2
    <3> QED
      BY <3>1 DEF PipeRec, d
  <2>4. fitting(d, outbuf) \in Seq(Byte)
    BY <2>2, <2>3, RedirectAssumption DEF fitting, least
  <2>5. d \o fitting(d, outbuf) \in Seq(Byte)
    BY <2>3, <2>4
  <2>6. flushed(k) = [pipes EXCEPT ![PipeOf(k)].data = @ \o fitting(@, outbuf)]
    BY <1>1 DEF flushed
  <2>7. [pipes[PipeOf(k)] EXCEPT !.data = d \o fitting(d, outbuf)] \in PipeRec
    BY <2>3, <2>5 DEF PipeRec
  <2>8. flushed(k) = [pipes EXCEPT ![PipeOf(k)] =
                        [pipes[PipeOf(k)] EXCEPT !.data = d \o fitting(d, outbuf)]]
    BY <2>6
  <2> HIDE DEF d, n
  <2>9. /\ flushed(k) \in Seq(PipeRec) /\ Len(flushed(k)) = Len(pipes)
        /\ \A p \in 1 .. Len(pipes) : p # PipeOf(k) => flushed(k)[p] = pipes[p]
    BY <2>1, <2>2, <2>7, <2>8
  <2> QED
    BY <1>1, <2>1, <2>9
<1>2. CASE ~(k = CR_STDOUT /\ IsWriteEnd(k))
  BY <1>2 DEF flushed, Ends, Types
<1> QED
  BY <1>1, <1>2

(* The numbers of the standard streams are numbers.                        *)
LEMMA Numbers3 ==
    /\ StdFd \subseteq Number /\ Number \subseteq Nat /\ Outputs \subseteq StdFd
    /\ StdFd = {CR_STDIN} \cup Outputs /\ CR_STDIN \notin Outputs
    /\ NoFile # Dangling /\ NoFile \notin Number /\ Dangling \notin Number
BY RedirectAssumption DEF StdFd, Number, Outputs, CR_STDIN, CR_STDOUT, CR_STDERR,
   NoFile, Dangling

(* A redirection makes a new pipe, whose ends nothing else is.             *)
LEMMA RedirectKeeps ==
    ASSUME Ends, NEW k \in StdFd, files[k] = NoFile, cr_redirect(k)
    PROVE  /\ Types' /\ (\A j \in StdFd : Table(j)') /\ Apart'
           /\ Redirected(k)' /\ PipeOf(k)' = Len(pipes) + 1
           /\ Len(pipes') = Len(pipes) + 1
           /\ \A j \in StdFd \ {k} : /\ Redirected(j)' <=> Redirected(j)
                                    /\ PipeOf(j)' = PipeOf(j)
<1>0. Len(pipes) \in Nat
  BY DEF Ends, Types
<1> DEFINE p == Len(pipes) + 1
           handle == pipe_fds(fds, p)
           i == handle[inner_end(k)]
           o == handle[outer_end(k)]
<1>1. ~no_pipe(fds) /\ redir' = [redir EXCEPT ![k] = handle]
      /\ fds' = pipe_std_redirect(pipe(fds, p), handle, k)
      /\ pipes' = Append(flushed(k), [data |-> <<>>, noblock |-> noblock(k)])
      /\ outbuf' \in Seq(Byte) /\ sent' = [sent EXCEPT ![k] = <<>>]
      /\ lost' = lost \ {k} /\ files' = files
  BY DEF cr_redirect, Ends, Types
<1>2. /\ handle \in Nat \X Nat /\ handle # <<0, 0>>
      /\ i \in Number \ StdFd /\ o \in Number \ StdFd /\ i # o
      /\ fds[i] = Closed /\ fds[o] = Closed
      /\ DOMAIN fds' = Number
      /\ \A n \in Number :
            fds'[n] = IF n = k THEN Inner(k, p)
                      ELSE IF n = o THEN Outer(k, p)
                      ELSE IF n = i THEN Closed ELSE fds[n]
  BY <1>0, <1>1, RedirectEffect
<1>3. /\ pipes' \in Seq(PipeRec) /\ Len(pipes') = p
  <2>1. [data |-> <<>>, noblock |-> noblock(k)] \in PipeRec
    BY DEF PipeRec, noblock
  <2> QED
    BY <1>1, <2>1, Flushes
<1> HIDE DEF handle, i, o
<1>4. /\ Inner(k, p) \in Object(p) /\ Outer(k, p) \in Object(p) /\ Closed \in Object(p)
      /\ Object(Len(pipes)) \subseteq Object(p)
      /\ Inner(k, p) \notin Object(Len(pipes)) /\ Outer(k, p) \notin Object(Len(pipes))
  <2>1. p \in 1 .. p /\ p \notin 1 .. Len(pipes) /\ 1 .. Len(pipes) \subseteq 1 .. p
    BY <1>0
  <2>2. \A q \in 1 .. Len(pipes) : q # p
    BY <2>1
  <2> HIDE DEF p
  <2>3. ReadEnd(p) \notin Object(Len(pipes)) /\ WriteEnd(p) \notin Object(Len(pipes))
    BY <2>2, Objects DEF Object
  <2> QED
    BY <2>1, <2>3 DEF Object, Inner, Outer
<1>5. fds' \in [Number -> Object(p)]
  <2>1. fds \in [Number -> Object(Len(pipes))]
    BY DEF Ends, Types
  <2>2. \A n \in Number : fds[n] \in Object(p)
    BY <2>1, <1>4
  <2>3. \A n \in Number : fds'[n] \in Object(p)
    BY <1>2, <1>4, <2>2
  <2>4. fds' = [n \in Number |-> fds'[n]]
    <3>1. fds' = [x \in DOMAIN fds' |-> fds'[x]]
      BY <1>1 DEF pipe_std_redirect, file_std_redirect, close
    <3> QED
      BY <3>1, <1>2
  <2> QED
    BY <2>3, <2>4
<1>6. Types'
  <2>1. sent' \in [StdFd -> Seq(Byte)] /\ lost' \subseteq Outputs
        /\ files' \in [StdFd -> Int] /\ redir' \in [StdFd -> Nat \X Nat]
    <3>1. redir \in [StdFd -> Nat \X Nat] /\ sent \in [StdFd -> Seq(Byte)]
          /\ lost \subseteq Outputs /\ files \in [StdFd -> Int]
      BY DEF Ends, Types
    <3>2. <<>> \in Seq(Byte)
      OBVIOUS
    <3> QED
      BY <3>1, <3>2, <1>1, <1>2
  <2> QED
    BY <1>1, <1>3, <1>5, <2>1 DEF Types
<1>7. /\ Redirected(k)' /\ PipeOf(k)' = p /\ outer(k)' = o
      /\ \A j \in StdFd \ {k} :
            /\ Redirected(j)' <=> Redirected(j)
            /\ fds'[j] = fds[j] /\ PipeOf(j)' = PipeOf(j) /\ outer(j)' = outer(j)
  <2>1. redir'[k] = handle /\ \A j \in StdFd \ {k} : redir'[j] = redir[j]
    BY <1>1 DEF Ends, Types
  <2>2. fds'[k] = Inner(k, p) /\ \A j \in StdFd \ {k} : fds'[j] = fds[j]
    BY <1>2, Numbers3
  <2>3. PipeOf(k)' = p
    BY <2>2, InnerOuter DEF PipeOf
  <2> QED
    BY <1>2, <2>1, <2>2, <2>3 DEF PipeOf, Redirected, outer, o
<1>8. ASSUME NEW j \in StdFd PROVE Table(j)'
  <2>1. CASE j = k
    <3>1. fds'[k] = Inner(k, p) /\ fds'[o] = Outer(k, p)
      BY <1>2, Numbers3
    <3>2. p \in 1 .. p
      BY <1>0
    <3>3. Kept(k)'
      BY <1>1, <1>2, <1>7, <3>1 DEF Kept
    <3> QED
      BY <1>3, <1>7, <2>1, <3>1, <3>2, <3>3 DEF Table
  <2>2. CASE j # k
    <3>1. Table(j)
      BY DEF Ends
    <3>2. Redirected(j) => PipeOf(j) \in 1 .. Len(pipes')
      BY <1>0, <1>3, <3>1 DEF Table
    <3>3. ASSUME Kept(j) PROVE Kept(j)'
      <4>1. fds[outer(j)] # Closed
        BY <3>3, InnerOuter DEF Kept
      <4>2. fds'[outer(j)] = fds[outer(j)]
        BY <1>2, <3>3, <4>1 DEF Kept
      <4> QED
        BY <1>1, <1>7, <2>2, <3>3, <4>2 DEF Kept
    <3> QED
      BY <1>1, <1>7, <2>2, <3>1, <3>2, <3>3 DEF Table
  <2> QED
    BY <2>1, <2>2
<1>9. Apart'
  <2>1. ASSUME NEW m \in Number, NEW n \in Number, m # n, fds'[m] = fds'[n]
        PROVE  fds'[m] = Closed
    <3>1. /\ fds[m] \in Object(Len(pipes)) /\ fds[n] \in Object(Len(pipes))
          /\ fds[m] = fds[n] => fds[m] = Closed
      BY <2>1 DEF Ends, Types, Apart
    <3>2. Inner(k, p) # Outer(k, p) /\ Inner(k, p) # Closed /\ Outer(k, p) # Closed
      BY InnerOuter
    <3> HIDE DEF p
    <3> QED
      BY <1>2, <1>4, <2>1, <3>1, <3>2
  <2>2. ASSUME NEW j \in StdFd, NEW l \in StdFd, j # l,
               Redirected(j)', Redirected(l)'
        PROVE  PipeOf(j)' # PipeOf(l)'
    <3>1. \A x \in StdFd : Redirected(x) => PipeOf(x) \in 1 .. Len(pipes)
      BY DEF Ends, Table
    <3>2. p \notin 1 .. Len(pipes)
      BY <1>0
    <3> QED
      BY <1>7, <2>2, <3>1, <3>2 DEF Ends, Apart
  <2> QED
    BY <2>1, <2>2 DEF Apart
<1> QED
  BY <1>3, <1>6, <1>7, <1>8, <1>9

(* The end that is kept of stream k is closed: no other number is it.      *)
LEMMA CloseKeeps ==
    ASSUME Ends, NEW k \in StdFd, Redirected(k), files[k] # Dangling,
           fds' = close(fds, outer(k)), files' = [files EXCEPT ![k] = Dangling],
           pipes' \in Seq(PipeRec), Len(pipes') = Len(pipes), redir' = redir,
           outbuf' = outbuf, sent' \in [StdFd -> Seq(Byte)], lost' = lost
    PROVE  /\ Types' /\ (\A j \in StdFd : Table(j)') /\ Apart'
           /\ \A j \in StdFd : /\ Redirected(j)' <=> Redirected(j)
                              /\ PipeOf(j)' = PipeOf(j)
<1>1. Kept(k) /\ Types /\ Apart
  BY DEF Ends, Table
<1>2. fds' = [fds EXCEPT ![outer(k)] = Closed] /\ outer(k) \in Number \ StdFd
  BY <1>1 DEF close, Kept
<1>3. Types'
  <2>1. Closed \in Object(Len(pipes))
    BY DEF Object
  <2>2. fds' \in [Number -> Object(Len(pipes'))]
    BY <1>1, <1>2, <2>1 DEF Types
  <2>3. Dangling \in Int
    BY DEF Dangling
  <2> QED
    BY <1>1, <2>2, <2>3 DEF Types
<1>4. \A j \in StdFd :
         /\ Redirected(j)' <=> Redirected(j)
         /\ fds'[j] = fds[j] /\ PipeOf(j)' = PipeOf(j) /\ outer(j)' = outer(j)
  <2>1. \A j \in StdFd : fds'[j] = fds[j]
    BY <1>1, <1>2, Numbers3 DEF Types
  <2> QED
    BY <2>1 DEF PipeOf, Redirected, outer
<1>5. ASSUME NEW j \in StdFd PROVE Table(j)'
  <2>1. Table(j)
    BY DEF Ends
  <2>2. files'[j] = IF j = k THEN Dangling ELSE files[j]
    BY <1>1 DEF Types
  <2>3. ASSUME j # k, Redirected(j), Kept(j) PROVE Kept(j)'
    <3>1. PipeOf(j) # PipeOf(k)
      BY <1>1, <2>3 DEF Apart
    <3>2. outer(j) # outer(k)
      <4>1. fds[outer(j)] = Outer(j, PipeOf(j)) /\ fds[outer(k)] = Outer(k, PipeOf(k))
        BY <1>1, <2>3 DEF Kept
      <4>2. \A p, q : Outer(j, p) = Outer(k, q) => p = q
        BY Objects DEF Outer
      <4> QED
        BY <3>1, <4>1, <4>2
    <3>3. fds'[outer(j)] = fds[outer(j)]
      BY <1>1, <1>2, <2>3, <3>2 DEF Types, Kept
    <3> QED
      BY <1>4, <2>2, <2>3, <3>3 DEF Kept
  <2> QED
    BY <1>4, <2>1, <2>2, <2>3 DEF Table
<1>6. Apart'
  <2>1. ASSUME NEW m \in Number, NEW n \in Number, m # n, fds'[m] = fds'[n]
        PROVE  fds'[m] = Closed
    BY <1>1, <1>2, <2>1 DEF Apart, Types
  <2>2. ASSUME NEW j \in StdFd, NEW l \in StdFd, j # l,
               Redirected(j)', Redirected(l)'
        PROVE  PipeOf(j)' # PipeOf(l)'
    <3>1. Redirected(j) /\ Redirected(l)
      BY <1>4, <2>2
    <3>2. PipeOf(j) # PipeOf(l)
      BY <1>1, <2>2, <3>1 DEF Apart
    <3> QED
      BY <1>4, <3>2
  <2> QED
    BY <2>1, <2>2 DEF Apart
<1> QED
  BY <1>3, <1>4, <1>5, <1>6
(* The data of one pipe is replaced.                                       *)
LEMMA PipeData ==
    ASSUME pipes \in Seq(PipeRec), NEW q \in 1 .. Len(pipes), NEW d \in Seq(Byte),
           pipes' = [pipes EXCEPT ![q].data = d]
    PROVE  /\ pipes' \in Seq(PipeRec) /\ Len(pipes') = Len(pipes)
           /\ pipes'[q].data = d
           /\ \A p \in 1 .. Len(pipes) : p # q => pipes'[p] = pipes[p]
<1>1. pipes[q] \in PipeRec
  OBVIOUS
<1> DEFINE r == [pipes[q] EXCEPT !.data = d]
<1>2. r \in PipeRec /\ r.data = d
  BY <1>1 DEF PipeRec
<1>3. pipes' = [pipes EXCEPT ![q] = r]
  OBVIOUS
<1> HIDE DEF r
<1> QED
  BY <1>2, <1>3

\* Nothing is opened or closed.
StillOpen ==
    /\ UNCHANGED <<fds, redir, files>>
    /\ pipes' \in Seq(PipeRec) /\ Len(pipes') = Len(pipes)
    /\ outbuf' \in Seq(Byte)
    /\ sent' \in [StdFd -> Seq(Byte)] /\ lost' \subseteq Outputs

LEMMA StillKeeps ==
    ASSUME Ends, StillOpen
    PROVE  /\ Types' /\ (\A j \in StdFd : Table(j)') /\ Apart'
           /\ \A j \in StdFd :
                 /\ Redirected(j)' <=> Redirected(j)
                 /\ PipeOf(j)' = PipeOf(j) /\ outer(j)' = outer(j)
<1>1. Types'
  BY DEF Ends, Types, StillOpen
<1>2. \A j \in StdFd :
         /\ Redirected(j)' <=> Redirected(j)
         /\ fds'[j] = fds[j] /\ PipeOf(j)' = PipeOf(j) /\ outer(j)' = outer(j)
  BY DEF StillOpen, PipeOf, Redirected, outer
<1>3. ASSUME NEW j \in StdFd PROVE Table(j)'
  <2>1. Table(j)
    BY DEF Ends
  <2>2. Kept(j) => Kept(j)'
    BY <1>2 DEF StillOpen, Kept
  <2> QED
    BY <1>2, <2>1, <2>2 DEF Table, StillOpen
<1>4. Apart'
  BY <1>2 DEF Ends, Apart, StillOpen
<1> QED
  BY <1>1, <1>2, <1>3, <1>4

\* What fits of a text is bytes.
LEMMA Fits ==
    ASSUME NEW d \in Seq(Byte), NEW text \in Seq(Byte), Len(d) <= Capacity
    PROVE  /\ fitting(d, text) \in Seq(Byte)
           /\ Len(fitting(d, text)) = least(Len(text), Capacity - Len(d))
           /\ Len(d \o fitting(d, text)) <= Capacity
BY RedirectAssumption DEF fitting, least

(* Writing an output opens and closes nothing.                             *)
LEMMA WrittenKeeps ==
    ASSUME Ends, NEW n \in Outputs, NEW text \in Seq(Byte), Written(n, text)
    PROVE  /\ pipes' \in Seq(PipeRec) /\ Len(pipes') = Len(pipes)
           /\ sent' \in [StdFd -> Seq(Byte)] /\ lost' \subseteq Outputs
           /\ tpc' \in {tpc, "killed"}
           /\ IsWriteEnd(n) => PipeOf(n) \in 1 .. Len(pipes)
<1>1. n \in StdFd
  BY Numbers3
<1>2. IsWriteEnd(n) => PipeOf(n) \in 1 .. Len(pipes)
  BY <1>1, Objects DEF Ends, Table, IsWriteEnd
<1>3. sent' \in [StdFd -> Seq(Byte)]
  <2>1. sent \in [StdFd -> Seq(Byte)]
    BY DEF Ends, Types
  <2>2. sent[n] \o text \in Seq(Byte)
    BY <1>1, <2>1
  <2> QED
    BY <1>1, <2>1, <2>2 DEF Written
<1>4. pipes \in Seq(PipeRec) /\ lost \subseteq Outputs
  BY DEF Ends, Types
<1>5. CASE UNCHANGED <<pipes, lost>>
  BY <1>2, <1>3, <1>4, <1>5 DEF Written
<1>6. CASE ~UNCHANGED <<pipes, lost>>
  <2> DEFINE q == PipeOf(n)
             kept == fitting(pipes[q].data, text)
  <2>1. /\ IsWriteEnd(n) /\ UNCHANGED tpc
        /\ pipes' = [pipes EXCEPT ![q].data = @ \o kept]
        /\ lost' = IF kept = text THEN lost ELSE lost \cup {n}
    BY <1>6 DEF Written
  <2>2. pipes[q] \in PipeRec
    BY <1>2, <1>4, <2>1
  <2>3. pipes[q].data \o kept \in Seq(Byte)
    BY <2>2, RedirectAssumption DEF PipeRec, fitting, least
  <2> HIDE DEF q, kept
  <2>4. q \in 1 .. Len(pipes)
    BY <1>2, <2>1 DEF q
  <2>5. pipes' = [pipes EXCEPT ![q].data = pipes[q].data \o kept]
    BY <2>1
  <2>6. pipes' \in Seq(PipeRec) /\ Len(pipes') = Len(pipes)
    BY <1>4, <2>3, <2>4, <2>5, PipeData
  <2> QED
    BY <1>2, <1>3, <1>4, <2>1, <2>6
<1> QED
  BY <1>5, <1>6

LEMMA EndsInit == ASSUME RedirectInit PROVE Ends
<1>1. /\ fds = [n \in Number |-> IF n \in StdFd THEN Terminal(n) ELSE Closed]
      /\ pipes = <<>> /\ redir = [k \in StdFd |-> <<0, 0>>]
      /\ files = [k \in StdFd |-> NoFile] /\ outbuf = <<>>
      /\ tpc = "boot" /\ cmp = NoCmp
      /\ sent = [k \in StdFd |-> <<>>] /\ lost = {}
  BY DEF RedirectInit, TestInit, Number
<1>2. \A n \in Number : fds[n] \in Object(0)
  BY <1>1 DEF Object
<1>3. Types
  <2>1. NoFile \in Int /\ <<>> \in Seq(Byte) /\ <<>> \in Seq(PipeRec) /\ Len(pipes) = 0
    BY <1>1 DEF NoFile
  <2>2. fds \in [Number -> Object(Len(pipes))]
    BY <1>1, <1>2, <2>1
  <2> QED
    BY <1>1, <2>1, <2>2 DEF Types
<1>4. \A k \in StdFd : ~Redirected(k) /\ Table(k)
  BY <1>1, Numbers3 DEF Redirected, Table
<1>5. Apart
  <2>1. ASSUME NEW m \in Number, NEW n \in Number, m # n, fds[m] = fds[n]
        PROVE  fds[m] = Closed
    BY ZenonT(60), <1>1, <2>1, Objects
  <2> QED
    BY <1>4, <2>1 DEF Apart
<1>6. Compares
  BY <1>1, <1>4, Numbers3 DEF Compares, Comparing
<1> QED
  BY <1>3, <1>4, <1>5, <1>6 DEF Ends
(* What the static pointer of stream k gives, until its file is closed.    *)
LEMMA KeptEnd ==
    ASSUME Ends, NEW k \in StdFd, Redirected(k), files[k] # Dangling
    PROVE  /\ Kept(k) /\ cr_get_redirected(k) = outer(k)
           /\ PipeOf(outer(k)) = PipeOf(k) /\ PipeOf(k) \in 1 .. Len(pipes)
<1>1. Kept(k) /\ PipeOf(k) \in 1 .. Len(pipes)
  BY DEF Ends, Table
<1>2. cr_get_redirected(k) = outer(k)
  BY <1>1 DEF cr_get_redirected, Kept, outer
<1>3. PipeOf(outer(k)) = PipeOf(k)
  BY <1>1, InnerOuter DEF Kept, PipeOf
<1> QED
  BY <1>1, <1>2, <1>3

(* A comparison reads the pipe of its stream.                              *)
LEMMA Sourced ==
    ASSUME Ends, tpc \in Comparing
    PROVE  /\ "fd" \in DOMAIN cmp /\ cmp.fd \in Outputs /\ cmp.fd \in StdFd
           /\ Redirected(cmp.fd) /\ files[cmp.fd] # Dangling
           /\ files[cmp.fd] = outer(cmp.fd)
           /\ source = PipeOf(cmp.fd) /\ source \in 1 .. Len(pipes)
           /\ input \in Seq(Byte)
<1>1. /\ "fd" \in DOMAIN cmp /\ cmp.fd \in Outputs /\ cmp.fd \in StdFd
      /\ Redirected(cmp.fd) /\ files[cmp.fd] = outer(cmp.fd)
  BY Numbers3 DEF Ends, Compares
<1>2. files[cmp.fd] # Dangling
  <2>1. redir[cmp.fd] \in Nat \X Nat
    BY <1>1 DEF Ends, Types
  <2>2. outer(cmp.fd) \in Nat
    BY <2>1 DEF outer, outer_end
  <2> QED
    BY <1>1, <2>2 DEF Dangling
<1>3. source = PipeOf(cmp.fd) /\ source \in 1 .. Len(pipes)
  BY <1>1, <1>2, KeptEnd DEF source
<1>4. pipes[source] \in PipeRec
  BY <1>3 DEF Ends, Types
<1>5. input \in Seq(Byte)
  BY <1>4 DEF input, PipeRec
<1> QED
  BY <1>1, <1>2, <1>3, <1>5

(* fread takes a block from the front.                                     *)
LEMMA RestOf ==
    ASSUME NEW data \in Seq(Byte)
    PROVE  /\ block_of(data) \in Seq(Byte) /\ rest_of(data) \in Seq(Byte)
           /\ Len(block_of(data)) = least(Len(data), Block)
           /\ Len(block_of(data)) + Len(rest_of(data)) = Len(data)
           /\ \A i \in 1 .. Len(block_of(data)) : block_of(data)[i] = data[i]
           /\ \A i \in 1 .. Len(rest_of(data)) :
                 rest_of(data)[i] = data[Len(block_of(data)) + i]
<1>1. PICK n \in Nat : n = least(Len(data), Block) /\ n <= Len(data)
  BY RedirectAssumption DEF least
<1>2. block_of(data) = SubSeq(data, 1, n)
  BY <1>1 DEF block_of
<1>3. Len(block_of(data)) = n /\ block_of(data) \in Seq(Byte)
      /\ \A i \in 1 .. n : block_of(data)[i] = data[i]
  BY <1>1, <1>2
<1>4. rest_of(data) = SubSeq(data, n + 1, Len(data))
  BY <1>3 DEF rest_of
<1>5. rest_of(data) \in Seq(Byte) /\ Len(rest_of(data)) = Len(data) - n
      /\ \A i \in 1 .. Len(data) - n : rest_of(data)[i] = data[n + i]
  BY <1>1, <1>4
<1> QED
  BY <1>1, <1>3, <1>5

(* cr_get_redirected: the end that is kept of stream k becomes a FILE.     *)
LEMMA GetsKeeps ==
    ASSUME Ends, NEW k \in StdFd, Redirected(k), files[k] # Dangling,
           UNCHANGED <<fds, redir, outbuf, lost>>,
           files' = [files EXCEPT ![k] = cr_get_redirected(k)],
           pipes' \in Seq(PipeRec), Len(pipes') = Len(pipes),
           sent' \in [StdFd -> Seq(Byte)]
    PROVE  /\ Types' /\ (\A j \in StdFd : Table(j)') /\ Apart'
           /\ cr_get_redirected(k) = outer(k)
           /\ PipeOf(outer(k)) = PipeOf(k)
           /\ files'[k] = outer(k) /\ outer(k)' = outer(k)
           /\ \A j \in StdFd :
                 /\ Redirected(j)' <=> Redirected(j)
                 /\ PipeOf(j)' = PipeOf(j)
<1>0. Types /\ (\A j \in StdFd : Table(j)) /\ Apart
  BY DEF Ends
<1>1. Kept(k)
  BY KeptEnd
<1>2. cr_get_redirected(k) = outer(k)
  BY KeptEnd
<1>3. PipeOf(outer(k)) = PipeOf(k)
  BY KeptEnd
<1>4. \A j \in StdFd :
         /\ Redirected(j)' <=> Redirected(j)
         /\ fds'[j] = fds[j] /\ PipeOf(j)' = PipeOf(j) /\ outer(j)' = outer(j)
  BY DEF PipeOf, Redirected, outer
<1>5. \A j \in StdFd : files'[j] = IF j = k THEN outer(k) ELSE files[j]
  BY <1>0, <1>2 DEF Types
<1>6. Types'
  <2>1. outer(k) \in Number
    BY <1>1 DEF Kept
  <2>2. outer(k) \in Int
    BY <2>1, RedirectAssumption DEF Number
  <2> QED
    BY <1>0, <1>2, <2>2 DEF Types
<1>7. ASSUME NEW j \in StdFd PROVE Table(j)'
  <2>1. Table(j)
    BY <1>0
  <2>2. Kept(j) => Kept(j)'
    BY <1>4, <1>5 DEF Kept
  <2> QED
    BY <1>1, <1>4, <1>5, <2>1, <2>2 DEF Table
<1>8. Apart'
  BY <1>0, <1>4 DEF Apart
<1> QED
  BY <1>2, <1>3, <1>4, <1>5, <1>6, <1>7, <1>8

(* Every step keeps the ends, and the numbers of both.                     *)
LEMMA EndsStep == ASSUME Ends, [RedirectNext]_allVars PROVE Ends'
<1>0. Types /\ (\A k \in StdFd : Table(k)) /\ Apart /\ Compares
  BY DEF Ends
<1>1. CASE UNCHANGED testVars
  <2>1. StillOpen
    BY <1>0, <1>1 DEF testVars, StillOpen, Types
  <2>2. Compares'
    BY <1>0, <1>1 DEF testVars, Compares, Redirected, outer
  <2> QED
    BY <2>1, <2>2, StillKeeps DEF Ends
<1>2. ASSUME NEW k \in StdFd, files[k] = NoFile, cr_redirect(k),
             tpc' = "idle",
             \/ k = CR_STDIN /\ tpc = "boot"
             \/ k \in Outputs /\ tpc = "idle"
      PROVE  Ends'
  <2>1. /\ Types' /\ (\A j \in StdFd : Table(j)') /\ Apart'
        /\ Redirected(k)'
        /\ \A j \in StdFd \ {k} : Redirected(j)' <=> Redirected(j)
    BY <1>2, RedirectKeeps
  <2>2. cmp' = cmp /\ cmp = NoCmp
    BY <1>0, <1>2 DEF cr_redirect, Compares, Comparing
  <2>3. Redirected(CR_STDIN)'
    BY <1>0, <1>2, <2>1, Numbers3 DEF Compares
  <2> QED
    BY <1>2, <2>1, <2>2, <2>3 DEF Ends, Compares, Comparing
<1>3. CASE Boot
  <2>1. files[CR_STDIN] = NoFile
    BY <1>0, <1>3, Numbers3 DEF Boot, Compares, Table
  <2> QED
    BY <1>2, <1>3, <2>1, Numbers3 DEF Boot
<1>4. ASSUME NEW k \in Outputs, RedirectOut(k) PROVE Ends'
  BY <1>2, <1>4, Numbers3 DEF RedirectOut, Redirectable
\* The steps that open and close nothing.
<1>5. ASSUME StillOpen, cmp' = cmp, tpc \notin Comparing, tpc' \notin Comparing,
             tpc # "boot", tpc' # "boot"
      PROVE  Ends'
  <2>1. Compares'
    BY <1>0, <1>5 DEF Compares, StillOpen, Redirected
  <2> QED
    BY <1>5, <2>1, StillKeeps DEF Ends
<1>6. ASSUME NEW k \in Outputs, RedirectFails(k) PROVE Ends'
  <2>1. flushed(k) \in Seq(PipeRec) /\ Len(flushed(k)) = Len(pipes)
    BY Flushes, Numbers3
  <2>2. StillOpen
    BY <1>0, <1>6, <2>1 DEF RedirectFails, StillOpen, Types
  <2> QED
    BY <1>5, <1>6, <2>2 DEF RedirectFails, Comparing
<1>7. ASSUME NEW text \in Texts, PrintOut(text) PROVE Ends'
  <2>1. outbuf \o text \in Seq(Byte)
    BY <1>0, RedirectAssumption DEF Types
  <2>2. StillOpen
    BY <1>0, <1>7, <2>1 DEF PrintOut, StillOpen, Types
  <2> QED
    BY <1>5, <1>7, <2>2 DEF PrintOut, Comparing
<1>8. ASSUME NEW n \in Outputs, NEW text \in Seq(Byte), Written(n, text),
             tpc = "idle", outbuf' \in Seq(Byte),
             UNCHANGED <<fds, redir, files, cmp>>
      PROVE  Ends'
  <2>1. /\ pipes' \in Seq(PipeRec) /\ Len(pipes') = Len(pipes)
        /\ sent' \in [StdFd -> Seq(Byte)] /\ lost' \subseteq Outputs
        /\ tpc' \in {tpc, "killed"}
    BY <1>8, WrittenKeeps
  <2>2. StillOpen
    BY <1>8, <2>1 DEF StillOpen
  <2> QED
    BY <1>5, <1>8, <2>1, <2>2 DEF Comparing
<1>9. CASE FlushOut
  BY <1>0, <1>8, <1>9 DEF FlushOut, Types, Outputs
<1>10. ASSUME NEW text \in Texts, PrintErr(text) PROVE Ends'
  BY <1>0, <1>8, <1>10, RedirectAssumption DEF PrintErr, Types, Outputs
<1>11. ASSUME NEW text \in Texts, FeedStdin(text) PROVE Ends'
  <2> DEFINE n == cr_get_redirected(CR_STDIN)
             q == PipeOf(n)
  <2>1. /\ tpc = "idle" /\ files[CR_STDIN] # Dangling
        /\ files' = [files EXCEPT ![CR_STDIN] = n]
        /\ pipes' = [pipes EXCEPT ![q].data = @ \o text]
        /\ sent' = [sent EXCEPT ![CR_STDIN] = @ \o text]
        /\ UNCHANGED <<fds, redir, outbuf, tpc, cmp, lost>>
    BY <1>11 DEF FeedStdin
  <2>2. Redirected(CR_STDIN)
    BY <1>0, <2>1 DEF Compares
  <2>3. q \in 1 .. Len(pipes)
    BY <1>0, <2>1, <2>2, KeptEnd, Numbers3 DEF Table
  <2>4. pipes[q] \in PipeRec /\ text \in Seq(Byte)
    <3> HIDE DEF q
    <3> QED
      BY <1>0, <2>3, RedirectAssumption DEF Types
  <2>5. pipes[q].data \o text \in Seq(Byte)
    BY <2>4 DEF PipeRec
  <2>6. pipes' = [pipes EXCEPT ![q].data = pipes[q].data \o text]
    BY <2>1
  <2> HIDE DEF q
  <2>7. pipes' \in Seq(PipeRec) /\ Len(pipes') = Len(pipes)
    BY <1>0, <2>3, <2>5, <2>6, PipeData DEF Types
  <2>8. sent' \in [StdFd -> Seq(Byte)]
    <3>1. sent[CR_STDIN] \o text \in Seq(Byte)
      BY <1>0, <2>4, Numbers3 DEF Types
    <3> QED
      BY <1>0, <2>1, <3>1 DEF Types
  <2>9. /\ Types' /\ (\A j \in StdFd : Table(j)') /\ Apart' /\ Redirected(CR_STDIN)'
    BY <2>1, <2>2, <2>7, <2>8, GetsKeeps, Numbers3
  <2>10. Compares'
    BY <1>0, <2>1, <2>9 DEF Compares, Comparing
  <2> QED
    BY <2>9, <2>10 DEF Ends
<1>12. CASE ReadStdin
  <2>1. /\ tpc = "idle" /\ files[CR_STDIN] # Dangling /\ Redirected(CR_STDIN)
        /\ fds' = close(fds, cr_get_redirected(CR_STDIN))
        /\ files' = [files EXCEPT ![CR_STDIN] = Dangling] /\ tpc' = "read"
        /\ UNCHANGED <<pipes, redir, outbuf, cmp, sent, lost>>
    BY <1>0, <1>12 DEF ReadStdin, Compares
  <2>2. cr_get_redirected(CR_STDIN) = outer(CR_STDIN)
    BY <2>1, KeptEnd, Numbers3
  <2>3. pipes' \in Seq(PipeRec) /\ sent' \in [StdFd -> Seq(Byte)]
    BY <1>0, <2>1 DEF Types
  <2>4. /\ Types' /\ (\A j \in StdFd : Table(j)') /\ Apart' /\ Redirected(CR_STDIN)'
    BY <2>1, <2>2, <2>3, CloseKeeps, Numbers3
  <2>5. Compares'
    BY <1>0, <2>1, <2>4 DEF Compares, Comparing
  <2> QED
    BY <2>4, <2>5 DEF Ends
\* The data of one pipe is replaced, and nothing is opened or closed.
<1>13. ASSUME NEW q \in 1 .. Len(pipes), NEW d \in Seq(Byte),
              pipes' = [pipes EXCEPT ![q].data = d],
              sent' \in [StdFd -> Seq(Byte)],
              UNCHANGED <<fds, redir, files, outbuf, lost>>
       PROVE  StillOpen
  <2>1. pipes' \in Seq(PipeRec) /\ Len(pipes') = Len(pipes)
    BY <1>0, <1>13, PipeData DEF Types
  <2> QED
    BY <1>0, <1>13, <2>1 DEF Types, StillOpen
<1>14. CASE StdinRead
  <2>1. PipeOf(CR_STDIN) \in 1 .. Len(pipes)
    BY <1>0, <1>14, Numbers3 DEF StdinRead, Compares, Table
  <2>2. sent' \in [StdFd -> Seq(Byte)] /\ <<>> \in Seq(Byte)
    <3>1. <<>> \in Seq(Byte)
      OBVIOUS
    <3> QED
      BY <1>0, <1>14, <3>1 DEF StdinRead, Types
  <2>3. StillOpen
    BY <1>13, <1>14, <2>1, <2>2 DEF StdinRead
  <2> QED
    BY <1>5, <1>14, <2>3 DEF StdinRead, Comparing
<1>15. ASSUME NEW k \in Outputs, NEW c, "fd" \in DOMAIN c, c.fd = k, Match(k, c)
       PROVE  Ends'
  <2>1. /\ tpc = "idle" /\ tpc' = "compare" /\ cmp' = c /\ files[k] # Dangling
        /\ files' = [files EXCEPT ![k] = cr_get_redirected(k)]
        /\ UNCHANGED <<fds, pipes, redir, outbuf, sent, lost>>
    BY <1>15 DEF Match, Captured
  <2>2. k \in StdFd
    BY Numbers3
  <2>3. Redirected(k)
    <3>1. fds[k][1] = "w"
      BY <1>15 DEF Match, Captured, IsWriteEnd
    <3>2. ~Redirected(k) => fds[k] = Terminal(k)
      BY <1>0, <2>2 DEF Table
    <3> QED
      BY <3>1, <3>2, Objects
  <2>4. pipes' \in Seq(PipeRec) /\ sent' \in [StdFd -> Seq(Byte)]
    BY <1>0, <2>1 DEF Types
  <2>5. /\ Types' /\ (\A j \in StdFd : Table(j)') /\ Apart'
        /\ \A j \in StdFd : Redirected(j)' <=> Redirected(j)
    BY <2>1, <2>2, <2>3, <2>4, GetsKeeps
  <2>6. files'[k] = outer(k)'
    BY <2>1, <2>2, <2>3, <2>4, GetsKeeps
  <2>7. Compares'
    BY <1>0, <1>15, <2>1, <2>2, <2>3, <2>5, <2>6, Numbers3 DEF Compares, Comparing
  <2> QED
    BY <2>5, <2>7 DEF Ends
<1>16. ASSUME NEW k \in Outputs, NEW text \in Texts, MatchStr(k, text) PROVE Ends'
  BY <1>15, <1>16 DEF MatchStr
<1>17. ASSUME NEW k \in Outputs, MatchFile(k) PROVE Ends'
  BY <1>15, <1>17 DEF MatchFile
\* A turn of a comparison: what it compares stays.
<1>18. ASSUME tpc = "compare", tpc' \in Comparing, Consume,
              "fd" \in DOMAIN cmp', cmp'.fd = cmp.fd,
              UNCHANGED <<fds, redir, files, outbuf, sent, lost>>
       PROVE  Ends'
  <2>1. /\ cmp.fd \in StdFd /\ cmp.fd \in Outputs /\ Redirected(cmp.fd)
        /\ files[cmp.fd] = outer(cmp.fd)
        /\ source \in 1 .. Len(pipes) /\ input \in Seq(Byte)
    BY <1>18, Sourced DEF Comparing
  <2>5. rest_of(input) \in Seq(Byte)
    BY <2>1, RestOf
  <2>6. StillOpen
    BY <1>0, <1>13, <1>18, <2>1, <2>5 DEF Consume, Types
  <2>7. Compares'
    BY <1>0, <1>18, <2>1 DEF Compares, Comparing, Redirected, outer
  <2> QED
    BY <2>6, <2>7, StillKeeps DEF Ends
<1>19. CASE CompareStr
  BY <1>0, <1>18, <1>19 DEF CompareStr, Compares, Comparing
<1>20. CASE CompareFile
  BY <1>0, <1>18, <1>20 DEF CompareFile, Compares, Comparing
<1>21. CASE Drain
  <2> DEFINE k == cmp.fd
  <2>1. /\ k \in StdFd /\ Redirected(k) /\ files[k] # Dangling
        /\ files[k] = outer(k)
        /\ source \in 1 .. Len(pipes)
    BY <1>21, Sourced DEF Drain, Comparing
  <2>2. /\ pipes' = [pipes EXCEPT ![source].data = <<>>]
        /\ fds' = close(fds, files[k]) /\ files' = [files EXCEPT ![k] = Dangling]
        /\ sent' = [sent EXCEPT ![k] = <<>>]
        /\ cmp' = NoCmp /\ tpc' = "return"
        /\ UNCHANGED <<redir, outbuf, lost>>
    BY <1>21 DEF Drain
  <2> HIDE DEF k
  <2>3. sent' \in [StdFd -> Seq(Byte)] /\ <<>> \in Seq(Byte)
    <3>1. <<>> \in Seq(Byte)
      OBVIOUS
    <3> QED
      BY <1>0, <2>2, <3>1 DEF Types
  <2>4. pipes' \in Seq(PipeRec) /\ Len(pipes') = Len(pipes)
    BY <1>0, <2>1, <2>2, <2>3, PipeData DEF Types
  <2>5. /\ Types' /\ (\A j \in StdFd : Table(j)') /\ Apart'
        /\ \A j \in StdFd : Redirected(j)' <=> Redirected(j)
    BY <2>1, <2>2, <2>3, <2>4, CloseKeeps
  <2>6. Compares'
    BY <1>0, <1>21, <2>2, <2>5, Numbers3 DEF Compares, Comparing, Drain
  <2> QED
    BY <2>5, <2>6 DEF Ends
<1>22. ASSUME tpc \notin Comparing, tpc # "boot", tpc' \notin Comparing, tpc' # "boot",
              UNCHANGED <<fds, pipes, redir, files, outbuf, cmp, sent, lost>>
       PROVE  Ends'
  <2>1. StillOpen
    BY <1>0, <1>22 DEF StillOpen, Types
  <2> QED
    BY <1>5, <1>22, <2>1
<1>23. CASE Exit
  BY <1>22, <1>23 DEF Exit, Comparing
<1>24. CASE Return
  BY <1>22, <1>24 DEF Return, Comparing
<1>25. CASE TestStep
  BY <1>3, <1>4, <1>6, <1>7, <1>9, <1>10, <1>11, <1>12, <1>16, <1>17, <1>23, <1>25
     DEF TestStep, Outputs
<1>26. CASE Waiting
  BY <1>14, <1>19, <1>20, <1>21, <1>24, <1>26 DEF Waiting
<1> QED
  BY <1>1, <1>25, <1>26 DEF RedirectNext, Sleeps, Over, allVars

(* TLC checks EndsMatch on one table: it holds for any number of           *)
(* descriptors and redirections (cr_redirect, file_std_redirect).          *)
THEOREM EndsStay == RedirectSpec => []EndsMatch
<1>1. RedirectInit => Ends
  BY EndsInit
<1>2. Ends /\ [RedirectNext]_allVars => Ends'
  BY EndsStep
<1>3. Ends => EndsMatch
  <2> SUFFICES ASSUME Ends, NEW k \in StdFd, Redirected(k)
               PROVE  /\ fds[k] = Inner(k, PipeOf(k))
                      /\ \A n \in DOMAIN fds : n # k => fds[n] # fds[k]
                      /\ files[k] # Dangling =>
                            /\ files[k] \in {NoFile, outer(k)}
                            /\ fds[outer(k)] = Outer(k, PipeOf(k))
    BY DEF EndsMatch, Inner, Outer, outer
  <2>1. fds[k] = Inner(k, PipeOf(k)) /\ k \in Number /\ DOMAIN fds = Number
    BY Numbers3 DEF Ends, Table, Types
  <2>2. fds[k] # Closed
    BY <2>1, InnerOuter
  <2>3. \A n \in DOMAIN fds : n # k => fds[n] # fds[k]
    BY <2>1, <2>2 DEF Ends, Apart
  <2> QED
    BY <2>1, <2>3, KeptEnd DEF Kept
<1> QED
  BY <1>1, <1>2, <1>3, PTL DEF RedirectSpec
----------------------------------------------------------------------------
(* What was printed stays in the pipe.                                     *)

(* More is written: a pipe that overflowed is full and takes nothing.      *)
LEMMA HoldsMore ==
    ASSUME NEW d \in Seq(Byte), NEW s \in Seq(Byte), NEW text \in Seq(Byte),
           NEW b \in BOOLEAN, Len(d) <= Capacity, Holds(d, s, b)
    PROVE  Holds(d \o fitting(d, text), s \o text, b \/ fitting(d, text) # text)
<1>1. PICK n \in Nat : n = least(Len(text), Capacity - Len(d))
                       /\ n <= Len(text) /\ Len(d) + n <= Capacity
                       /\ (n < Len(text) => Len(d) + n = Capacity)
  BY SMTT(30), RedirectAssumption DEF least
<1> DEFINE kept == fitting(d, text)
<1>2. kept = SubSeq(text, 1, n)
  BY <1>1 DEF fitting
<1>3. kept \in Seq(Byte) /\ Len(kept) = n /\ \A i \in 1 .. n : kept[i] = text[i]
  BY <1>1, <1>2
<1>4. kept = text <=> n = Len(text)
  <2>1. n = Len(text) => kept = text
    BY <1>2
  <2>2. kept = text => n = Len(text)
    BY <1>3
  <2> QED
    BY <2>1, <2>2
<1> HIDE DEF kept
<1>5. /\ Len(d) <= Len(s) /\ d = SubSeq(s, 1, Len(d))
      /\ (b => Len(d) = Capacity) /\ (~b => d = s)
  BY DEF Holds
<1>6. CASE b
  <2>1. n = 0
    BY <1>1, <1>5, <1>6, RedirectAssumption
  <2>2. d \o kept = d
    BY <1>3, <2>1
  <2>3. SubSeq(s \o text, 1, Len(d)) = SubSeq(s, 1, Len(d))
    BY <1>5
  <2>4. Len(d) <= Len(s \o text)
    BY <1>5
  <2> QED
    BY <1>5, <1>6, <2>2, <2>3, <2>4 DEF Holds, kept
<1>7. CASE ~b /\ kept = text
  BY <1>5, <1>7 DEF Holds, kept
<1>8. CASE ~b /\ kept # text
  <2>1. Len(d \o kept) = Capacity /\ Len(d \o kept) = Len(s) + n
    BY <1>1, <1>3, <1>4, <1>5, <1>8
  <2>2. SubSeq(s \o text, 1, Len(s) + n) = s \o kept
    <3> DEFINE x == SubSeq(s \o text, 1, Len(s) + n)
               y == s \o kept
    <3>1. /\ x \in Seq(Byte) /\ Len(x) = Len(s) + n
          /\ \A i \in 1 .. Len(s) + n : x[i] = (s \o text)[i]
      BY <1>1
    <3>2. /\ y \in Seq(Byte) /\ Len(y) = Len(s) + n
          /\ \A i \in 1 .. Len(s) + n :
                y[i] = IF i <= Len(s) THEN s[i] ELSE kept[i - Len(s)]
      BY <1>3, ConcatProperties
    <3>3. \A i \in 1 .. Len(s) + Len(text) :
             (s \o text)[i] = IF i <= Len(s) THEN s[i] ELSE text[i - Len(s)]
      BY ConcatProperties
    <3>4. ASSUME NEW i \in 1 .. Len(s) + n PROVE x[i] = y[i]
      <4> HIDE DEF x, y
      <4>1. i \in 1 .. Len(s) + Len(text) /\ (i > Len(s) => i - Len(s) \in 1 .. n)
        BY <1>1
      <4>2. x[i] = (s \o text)[i]
        BY <3>1
      <4> QED
        BY <1>3, <3>2, <3>3, <4>1, <4>2
    <3> HIDE DEF x, y
    <3>5. x = y
      BY <3>1, <3>2, <3>4, SeqEqual
    <3> QED
      BY <3>5 DEF x, y
  <2>3. Len(s) + n <= Len(s \o text)
    BY <1>1
  <2> QED
    BY <1>2, <1>5, <1>8, <2>1, <2>2, <2>3 DEF Holds, kept
<1> QED
  BY <1>6, <1>7, <1>8

(* Nothing was written, and nothing is there.                              *)
LEMMA HoldsNothing == Holds(<<>>, <<>>, FALSE)
BY DEF Holds

(* A stream whose pipe is not touched.                                     *)
LEMMA StreamStays ==
    ASSUME Streams, NEW j \in StdFd, Watched(j), PipeOf(j)' = PipeOf(j),
           pipes'[PipeOf(j)].data = pipes[PipeOf(j)].data,
           sent'[j] = sent[j], j \in lost' <=> j \in lost
    PROVE  Holds(pipes'[PipeOf(j)'].data, sent'[j], j \in lost')
BY DEF Streams

(* What a redirection flushes fits.                                        *)
LEMMA FlushFits ==
    ASSUME Ends, NEW k \in StdFd, \A p \in 1 .. Len(pipes) : Len(pipes[p].data) <= Capacity
    PROVE  \A p \in 1 .. Len(pipes) : Len(flushed(k)[p].data) <= Capacity
<1>1. CASE k = CR_STDOUT /\ IsWriteEnd(k)
  <2> DEFINE q == PipeOf(k)
             d == pipes[q].data
             f == d \o fitting(d, outbuf)
  <2>1. q \in 1 .. Len(pipes)
    BY <1>1, Objects DEF Ends, Table, IsWriteEnd
  <2>2. pipes \in Seq(PipeRec) /\ outbuf \in Seq(Byte)
    BY DEF Ends, Types
  <2>3. pipes[q] \in PipeRec
    BY <2>1, <2>2
  <2>4. d \in Seq(Byte)
    BY <2>3 DEF PipeRec
  <2>5. Len(d) <= Capacity
    BY <2>1
  <2>6. f \in Seq(Byte) /\ Len(f) <= Capacity
    <3> HIDE DEF d
    <3> QED
      BY <2>2, <2>4, <2>5, Fits
  <2>7. flushed(k) = [pipes EXCEPT ![q] = [pipes[q] EXCEPT !.data = f]]
    BY <1>1 DEF flushed
  <2>8. [pipes[q] EXCEPT !.data = f].data = f
    BY <2>3 DEF PipeRec
  <2> HIDE DEF q, d, f
  <2> QED
    BY <2>1, <2>2, <2>6, <2>7, <2>8
<1>2. CASE ~(k = CR_STDOUT /\ IsWriteEnd(k))
  BY <1>2 DEF flushed
<1> QED
  BY <1>1, <1>2

(* The data of one pipe is replaced by what fits, and nothing else.        *)
LEMMA FitsStill ==
    ASSUME pipes \in Seq(PipeRec), NEW q \in 1 .. Len(pipes), NEW d \in Seq(Byte),
           pipes' = [pipes EXCEPT ![q].data = d], Len(d) <= Capacity,
           \A p \in 1 .. Len(pipes) : Len(pipes[p].data) <= Capacity
    PROVE  \A p \in 1 .. Len(pipes') : Len(pipes'[p].data) <= Capacity
BY PipeData

(* Printing: a pipe that nobody reads belongs to a stream whose comparison *)
(* is over.                                                                *)
LEMMA StreamsWritten ==
    ASSUME Ends, Streams, NEW n \in Outputs, NEW text \in Seq(Byte),
           Written(n, text), tpc = "idle", UNCHANGED <<fds, redir, files, cmp>>
    PROVE  Streams'
<1>1. /\ \A p \in 1 .. Len(pipes) : Len(pipes[p].data) <= Capacity
      /\ pipes \in Seq(PipeRec) /\ sent \in [StdFd -> Seq(Byte)] /\ n \in StdFd
  BY Numbers3 DEF Streams, Ends, Types
<1>2. IsWriteEnd(n) => PipeOf(n) \in 1 .. Len(pipes)
  BY WrittenKeeps
<1> DEFINE q == PipeOf(n)
           d == pipes[q].data
           kept == fitting(d, text)
<1>3. IsWriteEnd(n) => d \in Seq(Byte) /\ Len(d) <= Capacity
  <2> SUFFICES ASSUME IsWriteEnd(n) PROVE d \in Seq(Byte) /\ Len(d) <= Capacity
    OBVIOUS
  <2>1. pipes[q] \in PipeRec
    BY <1>1, <1>2
  <2> QED
    BY <1>1, <1>2, <2>1 DEF PipeRec
<1>4. \/ UNCHANGED <<pipes, lost>> /\ (~IsWriteEnd(n) \/ text = <<>> \/ ~HasReader(q))
      \/ /\ IsWriteEnd(n)
         /\ pipes' = [pipes EXCEPT ![q].data = @ \o kept]
         /\ lost' = IF kept = text THEN lost ELSE lost \cup {n}
  BY DEF Written
<1>5. sent' = IF IsWriteEnd(n) THEN [sent EXCEPT ![n] = @ \o text] ELSE sent
  BY DEF Written
<1> HIDE DEF q, d, kept
<1>6. \A j \in StdFd : j # n => sent'[j] = sent[j] /\ (j \in lost' <=> j \in lost)
  BY <1>1, <1>4, <1>5
<1>7. IsWriteEnd(n) /\ ~UNCHANGED <<pipes, lost>> =>
         /\ \A p \in 1 .. Len(pipes') : Len(pipes'[p].data) <= Capacity
         /\ pipes'[q].data = d \o kept
         /\ \A p \in 1 .. Len(pipes) : p # q => pipes'[p] = pipes[p]
  <2> SUFFICES ASSUME IsWriteEnd(n), ~UNCHANGED <<pipes, lost>>
               PROVE  /\ \A p \in 1 .. Len(pipes') : Len(pipes'[p].data) <= Capacity
                      /\ pipes'[q].data = d \o kept
                      /\ \A p \in 1 .. Len(pipes) : p # q => pipes'[p] = pipes[p]
    OBVIOUS
  <2>1. d \o kept \in Seq(Byte) /\ Len(d \o kept) <= Capacity
    BY <1>3, Fits DEF kept
  <2>2. pipes' = [pipes EXCEPT ![q].data = d \o kept]
    BY <1>4 DEF d
  <2>3. q \in 1 .. Len(pipes)
    BY <1>2 DEF q
  <2>4. \A p \in 1 .. Len(pipes') : Len(pipes'[p].data) <= Capacity
    BY <1>1, <2>1, <2>2, <2>3, FitsStill
  <2> QED
    BY <1>1, <2>1, <2>2, <2>3, <2>4, PipeData
<1>8. \A p \in 1 .. Len(pipes') : Len(pipes'[p].data) <= Capacity
  BY <1>1, <1>4, <1>7
<1>9. ASSUME NEW j \in StdFd, Watched(j)'
      PROVE  Holds(pipes'[PipeOf(j)'].data, sent'[j], j \in lost')
  <2>1. PipeOf(j)' = PipeOf(j) /\ (Redirected(j)' <=> Redirected(j))
    BY DEF PipeOf, Redirected
  <2>2. tpc' \in {tpc, "killed"} /\ tpc' \notin Comparing
    BY WrittenKeeps DEF Comparing
  <2>3. Watched(j)
    BY <1>9, <2>1, <2>2 DEF Watched, Comparing
  <2>4. Redirected(j) /\ files[j] # Dangling
    BY <2>3 DEF Watched
  <2>5. CASE j = n
    <3>1. fds[n] = Inner(n, q) /\ fds[outer(n)] = Outer(n, q) /\ outer(n) \in Number
      BY <2>4, <2>5, KeptEnd DEF Ends, Table, Kept, q
    <3>2. n # CR_STDIN
      BY Numbers3
    <3>3. IsWriteEnd(n)
      BY <3>1, <3>2, Objects DEF IsWriteEnd, Inner
    <3>4. HasReader(q)
      BY <3>1, <3>2 DEF HasReader, Outer, Ends, Types
    <3>5. Holds(d, sent[n], n \in lost)
      BY <2>3, <2>5 DEF Streams, d, q
    <3>6. sent'[n] = sent[n] \o text
      BY <1>1, <1>5, <3>3
    <3>7. CASE text = <<>>
      <4>1. UNCHANGED <<pipes, lost>>
        BY <3>7 DEF Written
      <4>2. sent[n] \o text = sent[n]
        BY <1>1, <3>7
      <4> QED
        BY <2>1, <2>5, <3>5, <3>6, <4>1, <4>2 DEF d, q
    <3>8. CASE text # <<>>
      <4>1. /\ pipes' = [pipes EXCEPT ![q].data = @ \o kept]
            /\ lost' = IF kept = text THEN lost ELSE lost \cup {n}
        BY <3>3, <3>4, <3>8 DEF Written, kept, d, q
      <4>2. n \in lost' <=> (n \in lost \/ kept # text)
        BY <4>1
      <4>3. pipes'[q].data = d \o kept
        <5>1. d \o kept \in Seq(Byte)
          BY <1>3, <3>3, Fits DEF kept
        <5>2. pipes' = [pipes EXCEPT ![q].data = d \o kept]
          BY <4>1 DEF d
        <5>3. q \in 1 .. Len(pipes)
          BY <1>2, <3>3 DEF q
        <5> QED
          BY <1>1, <5>1, <5>2, <5>3, PipeData
      <4>4. sent[n] \in Seq(Byte) /\ d \in Seq(Byte) /\ Len(d) <= Capacity
        BY <1>1, <1>3, <3>3
      <4>5. Holds(d \o kept, sent[n] \o text, n \in lost')
        <5>1. CASE n \in lost
          <6>1. Holds(d, sent[n], TRUE)
            BY <3>5, <5>1
          <6>2. Holds(d \o kept, sent[n] \o text, TRUE)
            BY <4>4, <6>1, HoldsMore DEF kept
          <6> QED
            BY <4>2, <5>1, <6>2
        <5>2. CASE n \notin lost
          <6>1. Holds(d, sent[n], FALSE)
            BY <3>5, <5>2 DEF Holds
          <6>2. Holds(d \o kept, sent[n] \o text, kept # text)
            BY <4>4, <6>1, HoldsMore DEF kept
          <6> QED
            BY <4>2, <5>2, <6>2
        <5> QED
          BY <5>1, <5>2
      <4> QED
        BY <2>1, <2>5, <3>6, <4>3, <4>5 DEF q
    <3> QED
      BY <3>7, <3>8
  <2>6. CASE j # n
    <3>1. (PipeOf(j) \in 1 .. Len(pipes) /\ PipeOf(j) # q) \/ ~IsWriteEnd(n)
      <4>1. IsWriteEnd(n) => Redirected(n)
        <5>1. ~Redirected(n) => fds[n] = Terminal(n)
          BY <1>1 DEF Ends, Table
        <5> QED
          BY <5>1, Objects DEF IsWriteEnd
      <4> QED
        BY <1>1, <2>4, <2>6, <4>1, KeptEnd DEF Ends, Apart, q
    <3>2. pipes'[PipeOf(j)].data = pipes[PipeOf(j)].data
      BY <1>4, <1>7, <3>1
    <3> QED
      BY <1>6, <2>1, <2>3, <2>6, <3>2, StreamStays
  <2> QED
    BY <2>5, <2>6
<1> QED
  BY <1>8, <1>9 DEF Streams
(* Every step keeps what the pipes of watched streams hold.                *)
LEMMA StreamsStep ==
    ASSUME Ends, Streams, [RedirectNext]_allVars
    PROVE  Streams'
<1>0. /\ Types /\ (\A k \in StdFd : Table(k)) /\ Apart /\ Compares
      /\ pipes \in Seq(PipeRec)
      /\ \A p \in 1 .. Len(pipes) : Len(pipes[p].data) <= Capacity
  BY DEF Ends, Types, Streams
\* The pipes of two streams differ.
<1>1. ASSUME NEW j \in StdFd, NEW k \in StdFd, j # k, Watched(j)
      PROVE  /\ PipeOf(j) \in 1 .. Len(pipes)
             /\ Redirected(k) => PipeOf(j) # PipeOf(k)
  BY <1>0, <1>1 DEF Watched, Table, Apart
\* What no step but printing does: a stream is left alone, or its pipe is empty.
<1>2. ASSUME \A p \in 1 .. Len(pipes') : Len(pipes'[p].data) <= Capacity,
             \A j \in StdFd : Watched(j)' =>
                \/ /\ Watched(j) /\ PipeOf(j)' = PipeOf(j)
                   /\ pipes'[PipeOf(j)].data = pipes[PipeOf(j)].data
                   /\ sent'[j] = sent[j] /\ (j \in lost' <=> j \in lost)
                \/ /\ pipes'[PipeOf(j)'].data = <<>> /\ sent'[j] = <<>>
                   /\ j \notin lost'
      PROVE  Streams'
  <2>1. ASSUME NEW j \in StdFd, Watched(j)'
        PROVE  Holds(pipes'[PipeOf(j)'].data, sent'[j], j \in lost')
    <3>1. CASE /\ Watched(j) /\ PipeOf(j)' = PipeOf(j)
               /\ pipes'[PipeOf(j)].data = pipes[PipeOf(j)].data
               /\ sent'[j] = sent[j] /\ (j \in lost' <=> j \in lost)
      BY <3>1, StreamStays
    <3>2. CASE /\ pipes'[PipeOf(j)'].data = <<>> /\ sent'[j] = <<>>
               /\ j \notin lost'
      BY <3>2 DEF Holds
    <3> QED
      BY <1>2, <2>1, <3>1, <3>2
  <2> QED
    BY <1>2, <2>1 DEF Streams
<1>3. ASSUME UNCHANGED <<fds, pipes, redir, sent, lost>>,
             \A j \in StdFd : Watched(j)' => Watched(j)
      PROVE  Streams'
  <2>1. \A j \in StdFd : PipeOf(j)' = PipeOf(j)
    BY <1>3 DEF PipeOf
  <2> QED
    BY <1>0, <1>2, <1>3, <2>1
<1>4. CASE UNCHANGED testVars
  BY <1>3, <1>4 DEF testVars, Watched, Redirected
<1>5. ASSUME NEW k \in StdFd, files[k] = NoFile, cr_redirect(k),
             tpc \notin Comparing, tpc # "failed", tpc' = "idle"
      PROVE  Streams'
  <2>1. /\ Len(pipes') = Len(pipes) + 1
        /\ PipeOf(k)' = Len(pipes) + 1
        /\ \A j \in StdFd \ {k} : /\ Redirected(j)' <=> Redirected(j)
                                 /\ PipeOf(j)' = PipeOf(j)
    BY <1>5, RedirectKeeps
  <2>2. /\ flushed(k) \in Seq(PipeRec) /\ Len(flushed(k)) = Len(pipes)
        /\ \A p \in 1 .. Len(pipes) : Len(flushed(k)[p].data) <= Capacity
        /\ \A p \in 1 .. Len(pipes) :
              k # CR_STDOUT \/ ~Redirected(k) \/ p # PipeOf(k) =>
                 flushed(k)[p] = pipes[p]
    BY <1>0, Flushes, FlushFits
  <2>3. /\ pipes' = Append(flushed(k), [data |-> <<>>, noblock |-> noblock(k)])
        /\ sent' = [sent EXCEPT ![k] = <<>>] /\ lost' = lost \ {k} /\ files' = files
    BY <1>5 DEF cr_redirect
  <2>4. pipes'[Len(pipes) + 1].data = <<>>
        /\ \A p \in 1 .. Len(pipes) : pipes'[p] = flushed(k)[p]
    <3>1. [data |-> <<>>, noblock |-> noblock(k)] \in PipeRec
      BY DEF PipeRec, noblock
    <3> DEFINE r == [data |-> <<>>, noblock |-> noblock(k)]
    <3>2. r.data = <<>>
      OBVIOUS
    <3> HIDE DEF r
    <3>3. pipes' = Append(flushed(k), r) /\ r \in PipeRec
      BY <2>3, <3>1 DEF r
    <3> QED
      BY <2>2, <3>2, <3>3
  <2>5. \A p \in 1 .. Len(pipes') : Len(pipes'[p].data) <= Capacity
    <3>1. Len(<<>>) <= Capacity
      BY RedirectAssumption
    <3> QED
      BY <1>0, <2>1, <2>2, <2>4, <3>1
  <2>6. ASSUME NEW j \in StdFd, Watched(j)', j # k
        PROVE  /\ Watched(j) /\ PipeOf(j)' = PipeOf(j)
               /\ pipes'[PipeOf(j)].data = pipes[PipeOf(j)].data
               /\ sent'[j] = sent[j] /\ (j \in lost' <=> j \in lost)
    <3>1. Redirected(j) /\ PipeOf(j)' = PipeOf(j)
      BY <2>1, <2>6 DEF Watched
    <3>2. Watched(j)
      BY <1>5, <2>3, <2>6, <3>1 DEF Watched
    <3>3. pipes'[PipeOf(j)] = pipes[PipeOf(j)]
      BY <1>1, <2>2, <2>4, <2>6, <3>2
    <3> QED
      BY <1>0, <2>3, <2>6, <3>1, <3>2, <3>3 DEF Types
  <2>7. pipes'[PipeOf(k)'].data = <<>> /\ sent'[k] = <<>> /\ k \notin lost'
    BY <1>0, <2>1, <2>3, <2>4 DEF Types
  <2> QED
    BY <1>2, <2>5, <2>6, <2>7
<1>6. CASE Boot
  <2>1. files[CR_STDIN] = NoFile
    BY <1>0, <1>6, Numbers3 DEF Boot, Compares, Table
  <2> QED
    BY <1>5, <1>6, <2>1, Numbers3 DEF Boot, Comparing
<1>7. ASSUME NEW k \in Outputs, RedirectOut(k) PROVE Streams'
  BY <1>5, <1>7, Numbers3 DEF RedirectOut, Redirectable, Comparing
<1>8. ASSUME NEW k \in Outputs, RedirectFails(k) PROVE Streams'
  <2>1. k \in StdFd
    BY Numbers3
  <2>2. /\ Len(flushed(k)) = Len(pipes)
        /\ \A p \in 1 .. Len(pipes) : Len(flushed(k)[p].data) <= Capacity
        /\ \A p \in 1 .. Len(pipes) :
              k # CR_STDOUT \/ ~Redirected(k) \/ p # PipeOf(k) =>
                 flushed(k)[p] = pipes[p]
    BY <1>0, <2>1, Flushes, FlushFits
  <2>3. /\ tpc = "idle" /\ tpc' = "failed" /\ pipes' = flushed(k)
        /\ UNCHANGED <<fds, redir, files, cmp, sent, lost>>
    BY <1>8 DEF RedirectFails
  <2>4. ASSUME NEW j \in StdFd, Watched(j)'
        PROVE  /\ Watched(j) /\ PipeOf(j)' = PipeOf(j)
               /\ pipes'[PipeOf(j)].data = pipes[PipeOf(j)].data
               /\ sent'[j] = sent[j] /\ (j \in lost' <=> j \in lost)
    <3>1. Watched(j) /\ j # CR_STDOUT
      BY <2>3, <2>4 DEF Watched, Redirected, Comparing
    <3>2. pipes'[PipeOf(j)] = pipes[PipeOf(j)]
      BY <1>0, <1>1, <2>1, <2>2, <2>3, <3>1 DEF Watched, Table
    <3> QED
      BY <2>3, <3>1, <3>2 DEF PipeOf
  <2> QED
    BY <1>2, <2>2, <2>3, <2>4
<1>9. ASSUME NEW text \in Texts, PrintOut(text) PROVE Streams'
  BY <1>3, <1>9 DEF PrintOut, Watched, Redirected
<1>10. CASE FlushOut
  <2>1. outbuf \in Seq(Byte) /\ CR_STDOUT \in Outputs
    BY <1>0 DEF Types, Outputs
  <2> QED
    BY <1>10, <2>1, StreamsWritten DEF FlushOut
<1>11. ASSUME NEW text \in Texts, PrintErr(text) PROVE Streams'
  <2>1. text \in Seq(Byte) /\ CR_STDERR \in Outputs
    BY RedirectAssumption DEF Outputs
  <2> QED
    BY <1>11, <2>1, StreamsWritten DEF PrintErr
<1>12. ASSUME NEW text \in Texts, FeedStdin(text) PROVE Streams'
  <2> DEFINE q == PipeOf(CR_STDIN)
             d == pipes[q].data
  <2>1. /\ tpc = "idle" /\ files[CR_STDIN] # Dangling
        /\ files' = [files EXCEPT ![CR_STDIN] = cr_get_redirected(CR_STDIN)]
        /\ sent' = [sent EXCEPT ![CR_STDIN] = @ \o text]
        /\ UNCHANGED <<fds, redir, outbuf, tpc, cmp, lost>>
    BY <1>12 DEF FeedStdin
  <2>2. Redirected(CR_STDIN) /\ CR_STDIN \in StdFd /\ CR_STDIN \notin lost
    BY <1>0, <2>1, Numbers3 DEF Compares, Types
  <2>3. PipeOf(cr_get_redirected(CR_STDIN)) = q /\ q \in 1 .. Len(pipes)
    BY <2>1, <2>2, KeptEnd
  <2>4. fitting(d, text) = text /\ pipes' = [pipes EXCEPT ![q].data = @ \o text]
    BY <1>12, <2>3 DEF FeedStdin
  <2>5. pipes[q] \in PipeRec
    BY <1>0, <2>3
  <2>6. d \in Seq(Byte) /\ text \in Seq(Byte) /\ Len(d) <= Capacity
        /\ sent[CR_STDIN] \in Seq(Byte)
    BY <1>0, <2>2, <2>3, <2>5, RedirectAssumption DEF PipeRec, Types
  <2> HIDE DEF q, d
  <2>7. d \o text \in Seq(Byte) /\ Len(d \o text) <= Capacity
    <3>1. Len(d \o fitting(d, text)) <= Capacity
      BY <2>6, Fits
    <3>2. d \o text \in Seq(Byte)
      BY <2>6, ConcatProperties
    <3> QED
      BY <2>4, <3>1, <3>2
  <2>8. pipes' = [pipes EXCEPT ![q].data = d \o text]
    BY <2>4 DEF d
  <2>9. \A p \in 1 .. Len(pipes') : Len(pipes'[p].data) <= Capacity
    BY <1>0, <2>3, <2>7, <2>8, FitsStill
  <2>10. pipes'[q].data = d \o text
         /\ \A p \in 1 .. Len(pipes) : p # q => pipes'[p] = pipes[p]
    BY <1>0, <2>3, <2>7, <2>8, PipeData
  <2>11. \A j \in StdFd :
            /\ Redirected(j)' <=> Redirected(j)
            /\ PipeOf(j)' = PipeOf(j)
            /\ j # CR_STDIN => files'[j] = files[j] /\ sent'[j] = sent[j]
    BY <1>0, <2>1 DEF Redirected, PipeOf, Types
  <2>12. ASSUME NEW j \in StdFd, Watched(j)'
         PROVE  Holds(pipes'[PipeOf(j)'].data, sent'[j], j \in lost')
    <3>1. Watched(j)
      BY <2>1, <2>11, <2>12 DEF Watched
    <3>2. CASE j = CR_STDIN
      <4>1. Holds(d, sent[CR_STDIN], CR_STDIN \in lost)
        BY <3>1, <3>2 DEF Streams, d, q
      <4>2. Holds(d, sent[CR_STDIN], FALSE)
        BY <2>2, <4>1 DEF Holds
      <4>3. Holds(d \o text, sent[CR_STDIN] \o text, FALSE)
        BY SMTT(30), <2>6, <4>2 DEF Holds
      <4>4. sent'[CR_STDIN] = sent[CR_STDIN] \o text
        BY <1>0, <2>1, <2>2 DEF Types
      <4>5. Holds(pipes'[q].data, sent'[CR_STDIN], FALSE)
        BY <2>10, <4>3, <4>4
      <4>6. CR_STDIN \notin lost' /\ PipeOf(CR_STDIN)' = q
        BY <2>1, <2>2, <2>11 DEF q
      <4> QED
        BY <3>2, <4>5, <4>6 DEF Holds
    <3>3. CASE j # CR_STDIN
      <4>1. pipes'[PipeOf(j)] = pipes[PipeOf(j)]
        BY <1>1, <2>2, <2>10, <3>1, <3>3 DEF q
      <4> QED
        BY <2>1, <2>11, <3>1, <3>3, <4>1, StreamStays
    <3> QED
      BY <3>2, <3>3
  <2> QED
    BY <2>9, <2>12 DEF Streams
<1>13. CASE ReadStdin
  <2>1. /\ tpc = "idle" /\ tpc' = "read" /\ files[CR_STDIN] # Dangling
        /\ Redirected(CR_STDIN) /\ CR_STDIN \in StdFd
        /\ fds' = close(fds, cr_get_redirected(CR_STDIN))
        /\ files' = [files EXCEPT ![CR_STDIN] = Dangling]
        /\ UNCHANGED <<pipes, redir, outbuf, cmp, sent, lost>>
    BY <1>0, <1>13, Numbers3 DEF ReadStdin, Compares
  <2>2. cr_get_redirected(CR_STDIN) = outer(CR_STDIN)
    BY <2>1, KeptEnd
  <2>3. sent' \in [StdFd -> Seq(Byte)]
    BY <1>0, <2>1 DEF Types
  <2>4. \A j \in StdFd : /\ Redirected(j)' <=> Redirected(j)
                         /\ PipeOf(j)' = PipeOf(j)
    BY <1>0, <2>1, <2>2, <2>3, CloseKeeps
  <2>5. \A j \in StdFd : Watched(j)' => Watched(j)
    BY <1>0, <2>1, <2>4 DEF Watched, Comparing, Types
  <2> QED
    BY <1>0, <1>2, <2>1, <2>4, <2>5
\* The data of one pipe is taken, and the others are left alone.
<1>14. ASSUME NEW k \in StdFd, Redirected(k), PipeOf(k) \in 1 .. Len(pipes),
              NEW d \in Seq(Byte), Len(d) <= Len(pipes[PipeOf(k)].data),
              pipes' = [pipes EXCEPT ![PipeOf(k)].data = d],
              \A j \in StdFd : PipeOf(j)' = PipeOf(j),
              \A j \in StdFd : j # k => sent'[j] = sent[j],
              lost' = lost,
              \A j \in StdFd : Watched(j)' /\ j # k => Watched(j),
              \/ ~Watched(k)'
              \/ d = <<>> /\ sent'[k] = <<>> /\ k \notin lost
       PROVE  Streams'
  <2>1. pipes[PipeOf(k)] \in PipeRec
    BY <1>0, <1>14
  <2>2. Len(pipes[PipeOf(k)].data) <= Capacity /\ pipes[PipeOf(k)].data \in Seq(Byte)
    BY <1>0, <1>14, <2>1 DEF PipeRec
  <2>3. Len(d) <= Capacity
    BY <1>14, <2>2, RedirectAssumption
  <2>4. \A p \in 1 .. Len(pipes') : Len(pipes'[p].data) <= Capacity
    BY <1>0, <1>14, <2>3, FitsStill
  <2>5. pipes'[PipeOf(k)].data = d
        /\ \A p \in 1 .. Len(pipes) : p # PipeOf(k) => pipes'[p] = pipes[p]
    BY <1>0, <1>14, PipeData
  <2>6. ASSUME NEW j \in StdFd, Watched(j)', j # k
        PROVE  /\ Watched(j) /\ PipeOf(j)' = PipeOf(j)
               /\ pipes'[PipeOf(j)].data = pipes[PipeOf(j)].data
               /\ sent'[j] = sent[j] /\ (j \in lost' <=> j \in lost)
    <3>1. Watched(j)
      BY <1>14, <2>6
    <3> QED
      BY <1>1, <1>14, <2>5, <2>6, <3>1
  <2>7. ASSUME Watched(k)'
        PROVE  pipes'[PipeOf(k)'].data = <<>> /\ sent'[k] = <<>> /\ k \notin lost'
    BY <1>14, <2>5, <2>7
  <2> QED
    BY <1>2, <2>4, <2>6, <2>7
<1>15. CASE StdinRead
  <2>1. /\ tpc = "read" /\ tpc' = "return" /\ CR_STDIN \in StdFd
        /\ pipes' = [pipes EXCEPT ![PipeOf(CR_STDIN)].data = <<>>]
        /\ sent' = [sent EXCEPT ![CR_STDIN] = <<>>]
        /\ UNCHANGED <<fds, redir, files, cmp, lost>>
    BY <1>15, Numbers3 DEF StdinRead
  <2>2. Redirected(CR_STDIN) /\ CR_STDIN \notin lost
    BY <1>0, <2>1, Numbers3 DEF Compares, Types
  <2>3. PipeOf(CR_STDIN) \in 1 .. Len(pipes)
    BY <1>0, <2>1, <2>2 DEF Table
  <2>4. pipes[PipeOf(CR_STDIN)] \in PipeRec
    BY <1>0, <2>3
  <2>5. <<>> \in Seq(Byte) /\ Len(<<>>) <= Len(pipes[PipeOf(CR_STDIN)].data)
    BY <2>4 DEF PipeRec
  <2>6. \A j \in StdFd : /\ PipeOf(j)' = PipeOf(j)
                         /\ j # CR_STDIN => sent'[j] = sent[j]
                         /\ j # CR_STDIN /\ Watched(j)' => Watched(j)
    BY <1>0, <2>1 DEF PipeOf, Watched, Redirected, Comparing, Types
  <2>7. sent'[CR_STDIN] = <<>>
    BY <1>0, <2>1 DEF Types
  <2> QED
    BY <1>14, <2>1, <2>2, <2>3, <2>5, <2>6, <2>7
<1>16. ASSUME NEW k \in Outputs, NEW c, c.fd = k, Match(k, c) PROVE Streams'
  <2>1. /\ tpc = "idle" /\ tpc' = "compare" /\ files[k] # Dangling
        /\ files' = [files EXCEPT ![k] = cr_get_redirected(k)]
        /\ cmp' = c
        /\ UNCHANGED <<fds, pipes, redir, sent, lost>>
    BY <1>16 DEF Match, Captured
  <2>2. \A j \in StdFd : Watched(j)' => Watched(j)
    BY <1>0, <1>16, <2>1 DEF Watched, Redirected, Comparing, Types
  <2> QED
    BY <1>3, <2>1, <2>2
<1>17. ASSUME NEW k \in Outputs, NEW text \in Texts, MatchStr(k, text) PROVE Streams'
  BY <1>16, <1>17 DEF MatchStr
<1>18. ASSUME NEW k \in Outputs, MatchFile(k) PROVE Streams'
  BY <1>16, <1>18 DEF MatchFile
<1>19. ASSUME tpc = "compare", tpc' \in Comparing, Consume, cmp'.fd = cmp.fd,
              UNCHANGED <<fds, redir, files, sent, lost>>
       PROVE  Streams'
  <2>1. /\ cmp.fd \in StdFd /\ Redirected(cmp.fd) /\ source = PipeOf(cmp.fd)
        /\ source \in 1 .. Len(pipes) /\ input \in Seq(Byte)
    BY <1>19, Sourced DEF Comparing
  <2>2. pipes' = [pipes EXCEPT ![PipeOf(cmp.fd)].data = rest_of(input)]
        /\ input = pipes[PipeOf(cmp.fd)].data
    BY <1>19, <2>1 DEF Consume, input
  <2>3. rest_of(input) \in Seq(Byte) /\ Len(rest_of(input)) <= Len(input)
    <3>1. rest_of(input) \in Seq(Byte) /\ block_of(input) \in Seq(Byte)
          /\ Len(block_of(input)) + Len(rest_of(input)) = Len(input)
      BY <2>1, RestOf
    <3> QED
      BY <2>1, <3>1
  <2>4. \A j \in StdFd : /\ PipeOf(j)' = PipeOf(j)
                         /\ j # cmp.fd => sent'[j] = sent[j]
                         /\ j # cmp.fd /\ Watched(j)' => Watched(j)
    BY <1>19 DEF PipeOf, Watched, Redirected, Comparing
  <2>5. ~Watched(cmp.fd)'
    BY <1>19 DEF Watched
  <2> QED
    BY <1>14, <1>19, <2>1, <2>2, <2>3, <2>4, <2>5
<1>20. CASE CompareStr
  BY <1>0, <1>19, <1>20 DEF CompareStr, Compares, Comparing
<1>21. CASE CompareFile
  BY <1>0, <1>19, <1>21 DEF CompareFile, Compares, Comparing
<1>22. CASE Drain
  <2>1. PICK k \in StdFd :
           /\ k = cmp.fd /\ k \in Outputs /\ Redirected(k) /\ files[k] # Dangling
           /\ files[k] = outer(k) /\ source = PipeOf(k)
           /\ PipeOf(k) \in 1 .. Len(pipes)
    BY <1>22, Sourced DEF Drain, Comparing
  <2>2. /\ pipes' = [pipes EXCEPT ![PipeOf(k)].data = <<>>]
        /\ fds' = close(fds, outer(k)) /\ files' = [files EXCEPT ![k] = Dangling]
        /\ sent' = [sent EXCEPT ![k] = <<>>]
        /\ tpc = "drain" /\ tpc' = "return"
        /\ UNCHANGED <<redir, outbuf, lost>>
    BY <1>22, <2>1 DEF Drain
  <2>3. pipes[PipeOf(k)] \in PipeRec
    BY <1>0, <2>1
  <2>4. <<>> \in Seq(Byte) /\ Len(<<>>) <= Len(pipes[PipeOf(k)].data)
    BY <2>3 DEF PipeRec
  <2>5. pipes' \in Seq(PipeRec) /\ Len(pipes') = Len(pipes)
        /\ sent' \in [StdFd -> Seq(Byte)]
    BY <1>0, <2>1, <2>2, <2>4, PipeData DEF Types
  <2>6. \A j \in StdFd : /\ Redirected(j)' <=> Redirected(j)
                         /\ PipeOf(j)' = PipeOf(j)
    BY <2>1, <2>2, <2>5, CloseKeeps
  <2>7. \A j \in StdFd \ {k} : sent'[j] = sent[j] /\ files'[j] = files[j]
    BY <1>0, <2>1, <2>2 DEF Types
  <2>8. ~Watched(k)'
    <3>1. files'[k] = Dangling /\ k # CR_STDIN
      BY <1>0, <2>1, <2>2, Numbers3 DEF Types
    <3> QED
      BY <3>1 DEF Watched
  <2>9. \A j \in StdFd : Watched(j)' /\ j # k => Watched(j)
    BY <2>1, <2>2, <2>6, <2>7 DEF Watched, Comparing
  <2> QED
    BY <1>14, <2>1, <2>2, <2>4, <2>6, <2>7, <2>8, <2>9
<1>23. CASE Exit
  BY <1>3, <1>23 DEF Exit, Watched, Redirected, Comparing
<1>24. CASE Return
  BY <1>3, <1>24 DEF Return, Watched, Redirected, Comparing
<1>25. CASE TestStep
  BY <1>6, <1>7, <1>8, <1>9, <1>10, <1>11, <1>12, <1>13, <1>17, <1>18, <1>23, <1>25
     DEF TestStep, Outputs
<1>26. CASE Waiting
  BY <1>15, <1>20, <1>21, <1>22, <1>24, <1>26 DEF Waiting
<1> QED
  BY <1>4, <1>25, <1>26 DEF RedirectNext, Sleeps, Over, allVars

LEMMA StreamsInit == ASSUME RedirectInit PROVE Streams
<1>1. pipes = <<>> /\ redir = [k \in StdFd |-> <<0, 0>>]
  BY DEF RedirectInit, TestInit
<1> QED
  BY <1>1 DEF Streams, Watched, Redirected

(* What was sent to a redirected stream waits in its pipe, whole unless    *)
(* the pipe was full, whatever the test prints, feeds and compares: for    *)
(* every capacity, size of block and number of redirections.               *)
THEOREM OutputStays == RedirectSpec => []OutputKept
<1>1. RedirectInit => Ends /\ Streams
  BY EndsInit, StreamsInit
<1>2. Ends /\ Streams /\ [RedirectNext]_allVars => (Ends /\ Streams)'
  BY EndsStep, StreamsStep
<1>3. Ends /\ Streams => OutputKept
  <2> SUFFICES ASSUME Ends, Streams, NEW k \in StdFd, Redirected(k),
                      files[k] # Dangling, ~(tpc # "idle" /\ cmp.fd = k)
               PROVE  LET data == pipes[PipeOf(k)].data
                      IN  /\ fds[k] # Closed
                          /\ data = SubSeq(sent[k], 1, Len(data))
                          /\ k \notin lost => data = sent[k]
    BY DEF OutputKept
  <2>1. fds[k] # Closed
    BY InnerOuter DEF Ends, Table
  <2>2. Watched(k)
    BY DEF Watched, Ends, Compares, Comparing, NoCmp
  <2> QED
    BY <2>1, <2>2 DEF Streams, Holds
<1> QED
  BY <1>1, <1>2, <1>3, PTL DEF RedirectSpec
----------------------------------------------------------------------------
(* What a comparison has seen.                                             *)

(* Nothing was read yet.                                                   *)
LEMMA SuffixAll == ASSUME NEW S, NEW s \in Seq(S) PROVE Suffix(s, 0, s)
BY DEF Suffix

(* Two sequences agree so far, and one has nothing left: they are the same *)
(* if and only if the other has nothing left.                              *)
LEMMA SuffixSame ==
    ASSUME NEW S, NEW s \in Seq(S), NEW w \in Seq(S), NEW r, NEW n \in 0 .. Len(s),
           Suffix(<<>>, n, s), Suffix(r, n, w), r \in Seq(S),
           \A i \in 1 .. n : w[i] = s[i]
    PROVE  r = <<>> <=> s = w
<1>1. Len(s) = n
  BY DEF Suffix
<1>2. ASSUME r = <<>> PROVE s = w
  <2>1. Len(w) = n
    BY <1>2 DEF Suffix
  <2> QED
    BY <1>1, <2>1, SeqEqual
<1>3. ASSUME s = w PROVE r = <<>>
  BY <1>1, <1>3 DEF Suffix
<1> QED
  BY <1>2, <1>3

(* fread of a block: what was read follows what was read before.           *)
LEMMA SuffixRest ==
    ASSUME NEW t \in Seq(Byte), NEW s \in Seq(Byte), NEW n \in 0 .. Len(s),
           Suffix(t, n, s)
    PROVE  LET g == Len(block_of(t))
           IN  /\ g \in Nat /\ n + g \in 0 .. Len(s)
               /\ g = least(Len(s) - n, Block)
               /\ Suffix(rest_of(t), n + g, s)
               /\ \A i \in 1 .. g : block_of(t)[i] = s[n + i]
<1> DEFINE g == Len(block_of(t))
           r == rest_of(t)
<1>1. /\ block_of(t) \in Seq(Byte) /\ r \in Seq(Byte)
      /\ g = least(Len(t), Block) /\ g + Len(r) = Len(t)
      /\ \A i \in 1 .. g : block_of(t)[i] = t[i]
      /\ \A i \in 1 .. Len(r) : r[i] = t[g + i]
  BY RestOf
<1>2. g \in Nat /\ Len(r) \in Nat /\ Len(t) \in Nat
  BY <1>1
<1>3. n + Len(t) = Len(s) /\ \A i \in 1 .. Len(t) : t[i] = s[n + i]
  BY DEF Suffix
<1>8. Len(s) \in Nat /\ n \in Nat /\ n <= Len(s) /\ Len(t) = Len(s) - n
  BY <1>2, <1>3
<1> HIDE DEF g, r
<1>4. n + g \in 0 .. Len(s) /\ Len(r) = Len(s) - (n + g)
  <2>1. g + Len(r) = Len(t)
    BY <1>1
  <2> QED
    BY <1>2, <1>8, <2>1
<1>5. ASSUME NEW i \in 1 .. Len(r) PROVE r[i] = s[(n + g) + i]
  <2>1. g + i \in 1 .. Len(t)
    BY <1>1, <1>2
  <2>2. n + (g + i) = (n + g) + i
    BY <1>2
  <2> QED
    BY <1>1, <1>3, <2>1, <2>2
<1>6. ASSUME NEW i \in 1 .. g PROVE block_of(t)[i] = s[n + i]
  <2>1. i \in 1 .. Len(t)
    BY <1>1, <1>2
  <2> QED
    BY <1>1, <1>3, <2>1
<1>7. g = least(Len(s) - n, Block)
  BY <1>1, <1>8
<1> QED
  BY <1>2, <1>4, <1>5, <1>6, <1>7 DEF Suffix, g, r

(* One turn of the loop with a text keeps what is known of it.             *)
LEMMA StrTurn ==
    ASSUME tpc = "compare", cmp \in StrCmp, input \in Seq(Byte),
           NEW s \in Seq(Byte), StrSoFar(s),
           input' = rest_of(input), CompareStr
    PROVE  StrSoFar(s)'
<1> DEFINE got  == block_of(input)
           g    == Len(got)
           same == /\ g <= Len(cmp.rest)
                   /\ got = SubSeq(cmp.rest, 1, g)
<1>1. IF got = <<>> THEN tpc' = "drain" /\ UNCHANGED cmp
      ELSE IF same
      THEN /\ cmp' = [cmp EXCEPT !.rest = SubSeq(@, g + 1, Len(@))]
           /\ UNCHANGED tpc
      ELSE tpc' = "drain" /\ cmp' = [cmp EXCEPT !.matches = FALSE]
  BY DEF CompareStr
<1>2. /\ cmp.rest \in Seq(Byte) /\ cmp.want \in Seq(Byte) /\ cmp.matches \in BOOLEAN
  BY DEF StrCmp
<1>3. g \in Nat /\ got \in Seq(Byte)
  BY RestOf
<1>4. CASE got = <<>>
  <2>1. input' = input /\ input = <<>>
    <3>1. Len(input) = 0
      BY <1>4, RestOf, RedirectAssumption DEF least
    <3>2. input = <<>>
      BY <3>1
    <3>3. rest_of(<<>>) \in Seq(Byte) /\ Len(rest_of(<<>>)) = 0
      <4>1. <<>> \in Seq(Byte)
        OBVIOUS
      <4>2. /\ rest_of(<<>>) \in Seq(Byte) /\ block_of(<<>>) \in Seq(Byte)
            /\ Len(block_of(<<>>)) + Len(rest_of(<<>>)) = Len(<<>>)
        BY <4>1, RestOf
      <4> QED
        BY <4>2
    <3> QED
      BY <3>2, <3>3
  <2>2. tpc' = "drain" /\ cmp' = cmp
    BY <1>1, <1>4
  <2> QED
    BY <2>1, <2>2 DEF StrSoFar
<1>5. CASE got # <<>> /\ ~same
  <2>1. tpc' = "drain" /\ cmp' = [cmp EXCEPT !.matches = FALSE]
    BY <1>1, <1>5
  <2>2. ~cmp'.matches /\ cmp'.want = cmp.want
    BY <2>1 DEF StrCmp
  <2>3. ASSUME cmp.matches, cmp.want = s PROVE FALSE
    <3>1. PICK n \in 0 .. Len(s) :
             /\ Suffix(input, n, s) /\ Suffix(cmp.rest, n, cmp.want)
             /\ \A i \in 1 .. n : cmp.want[i] = s[i]
      BY <2>3 DEF StrSoFar
    <3>2. \A i \in 1 .. g : got[i] = s[n + i]
      BY <3>1, SuffixRest
    <3>3. Len(cmp.rest) = Len(input) /\ g <= Len(input)
      <4>1. g + Len(rest_of(input)) = Len(input) /\ rest_of(input) \in Seq(Byte)
        BY RestOf
      <4> QED
        BY <1>3, <2>3, <3>1, <4>1 DEF Suffix
    <3>4. \A i \in 1 .. g : cmp.rest[i] = s[n + i]
      BY SMTT(30), <1>2, <1>3, <2>3, <3>1, <3>3 DEF Suffix
    <3>5. got = SubSeq(cmp.rest, 1, g)
      <4> HIDE DEF got
      <4>1. /\ SubSeq(cmp.rest, 1, g) \in Seq(Byte) /\ Len(SubSeq(cmp.rest, 1, g)) = g
            /\ \A i \in 1 .. g : SubSeq(cmp.rest, 1, g)[i] = cmp.rest[i]
        BY <1>2, <1>3, <3>3
      <4> QED
        BY <1>3, <3>2, <3>4, <4>1, SeqEqual
    <3> QED
      BY <1>5, <3>3, <3>5
  <2>4. cmp.want # s
    BY <2>3 DEF StrSoFar
  <2> QED
    BY <2>2, <2>4 DEF StrSoFar
<1>6. CASE got # <<>> /\ same
  <2> DEFINE r == SubSeq(cmp.rest, g + 1, Len(cmp.rest))
  <2>1. /\ r \in Seq(Byte) /\ Len(r) = Len(cmp.rest) - g
        /\ \A i \in 1 .. Len(r) : r[i] = cmp.rest[g + i]
        /\ \A i \in 1 .. g : got[i] = cmp.rest[i]
    <3> HIDE DEF got
    <3> QED
      BY <1>2, <1>3, <1>6
  <2>2. tpc' = "compare" /\ cmp' = [cmp EXCEPT !.rest = r]
    BY <1>1, <1>6
  <2> HIDE DEF r
  <2>3. /\ cmp'.matches = cmp.matches /\ cmp'.want = cmp.want
        /\ cmp'.rest = r
    BY <2>1, <2>2 DEF StrCmp
  <2>4. ASSUME cmp.matches
        PROVE  \E n \in 0 .. Len(s) :
                  /\ Suffix(rest_of(input), n, s) /\ Suffix(r, n, cmp.want)
                  /\ \A i \in 1 .. n : cmp.want[i] = s[i]
    <3>1. PICK n \in 0 .. Len(s) :
             /\ Suffix(input, n, s) /\ Suffix(cmp.rest, n, cmp.want)
             /\ \A i \in 1 .. n : cmp.want[i] = s[i]
      BY <2>4 DEF StrSoFar
    <3>2. /\ n + g \in 0 .. Len(s) /\ Suffix(rest_of(input), n + g, s)
          /\ \A i \in 1 .. g : got[i] = s[n + i]
      BY <3>1, SuffixRest
    <3> HIDE DEF got, g
    <3>3. n \in 0 .. Len(cmp.want) /\ Len(cmp.rest) = Len(cmp.want) - n
          /\ \A i \in 1 .. Len(cmp.rest) : cmp.rest[i] = cmp.want[n + i]
      BY <3>1 DEF Suffix
    <3>4. g <= Len(cmp.rest)
      BY <1>6
    <3>5. Suffix(r, n + g, cmp.want)
      <4>1. n + g \in 0 .. Len(cmp.want) /\ Len(r) = Len(cmp.want) - (n + g)
        BY <1>2, <1>3, <2>1, <3>3, <3>4
      <4>2. ASSUME NEW i \in 1 .. Len(r) PROVE r[i] = cmp.want[(n + g) + i]
        <5>1. g + i \in 1 .. Len(cmp.rest) /\ n + (g + i) = (n + g) + i
          BY <1>2, <1>3, <2>1, <3>4
        <5> QED
          BY <2>1, <3>3, <5>1
      <4> QED
        BY <4>1, <4>2 DEF Suffix
    <3>6. ASSUME NEW i \in 1 .. n + g PROVE cmp.want[i] = s[i]
      <4>1. CASE i <= n
        BY <3>1, <4>1
      <4>2. CASE i > n
        <5>1. i - n \in 1 .. g /\ n + (i - n) = i /\ i - n \in 1 .. Len(cmp.rest)
          BY <1>2, <1>3, <3>4, <4>2
        <5> QED
          BY <2>1, <3>2, <3>3, <5>1
      <4> QED
        BY <4>1, <4>2
    <3> QED
      BY <3>2, <3>5, <3>6
  <2> QED
    BY <2>2, <2>3, <2>4 DEF StrSoFar
<1> QED
  BY <1>4, <1>5, <1>6
(* The reference of a comparison with a file is what the mock file holds.  *)
LEMMA ReferenceSeq ==
    ASSUME IInv, mf.size <= mf.alloc
    PROVE  /\ mf.size \in Nat /\ mf.cur \in Nat
           /\ Reference \in Seq(Byte \cup {Uninit}) /\ Len(Reference) = mf.size
           /\ \A i \in 1 .. mf.size : Reference[i] = mf.mem[i - 1]
<1>1. /\ mf.size \in Nat /\ mf.alloc \in Nat /\ mf.size <= mf.alloc /\ mf.cur \in Nat
      /\ mf.mem \in [0 .. mf.alloc - 1 -> Byte \cup {Uninit}]
  BY DEF IInv, MockTypeOK, MemoryOK, Region
<1>2. ASSUME NEW i \in 1 .. mf.size PROVE mf.mem[i - 1] \in Byte \cup {Uninit}
  <2>1. i - 1 \in 0 .. mf.alloc - 1
    BY <1>1
  <2> QED
    BY <1>1, <2>1
<1>3. Reference \in [1 .. mf.size -> Byte \cup {Uninit}]
  BY <1>2 DEF Reference
<1>4. Reference \in Seq(Byte \cup {Uninit}) /\ Len(Reference) = mf.size
  BY <1>1, <1>3
<1> QED
  BY <1>1, <1>4 DEF Reference

(* One turn of the loop with a file keeps what is known of it.             *)
LEMMA FileTurn ==
    ASSUME IInv, tpc = "compare", cmp \in FileCmp, mf.size <= mf.alloc,
           input \in Seq(Byte), NEW s \in Seq(Byte), FileSoFar(s),
           input' = rest_of(input), CompareFile
    PROVE  FileSoFar(s)'
<1> DEFINE got  == block_of(input)
           g    == Len(got)
           m    == readable(mf, Block)
           data == [i \in 1 .. m |-> read_data(mf, Block)[i - 1]]
           w    == cmp.want
<1>1. /\ IF got = <<>> THEN UNCHANGED <<mf, ret>> ELSE ReadCall(Block)
      /\ cmp' = IF got = <<>> \/ m = 0 THEN cmp
                ELSE [cmp EXCEPT !.matches = (got = data)]
      /\ tpc' = IF got = <<>> \/ m = 0 \/ g # m THEN "drain" ELSE "compare"
  BY DEF CompareFile
<1>2. /\ w = Reference /\ cmp.matches \in BOOLEAN
      /\ w \in Seq(Byte \cup {Uninit}) /\ Len(w) = mf.size
      /\ \A i \in 1 .. mf.size : w[i] = mf.mem[i - 1]
      /\ mf.size \in Nat /\ mf.cur \in Nat
  BY ReferenceSeq DEF FileCmp
<1>3. g \in Nat /\ got \in Seq(Byte) /\ (got = <<>> <=> g = 0)
  <2>1. g \in Nat /\ got \in Seq(Byte)
    BY RestOf
  <2> HIDE DEF got
  <2> QED
    BY <2>1
<1>4. PICK n \in 0 .. Len(s) :
         /\ Suffix(input, n, s) /\ mf.cur = n
         /\ s = w => (cmp.matches <=> n > 0)
         /\ n = 0 => ~cmp.matches
         /\ n > 0 /\ Len(s) < Block => input = <<>>
  BY DEF FileSoFar
<1>5. /\ n + g \in 0 .. Len(s) /\ n \in Nat /\ Len(s) \in Nat
      /\ g = IF Block < Len(s) - n THEN Block ELSE Len(s) - n
      /\ Suffix(rest_of(input), n + g, s)
      /\ \A i \in 1 .. g : got[i] = s[n + i]
  <2>1. /\ n + g \in 0 .. Len(s) /\ g = least(Len(s) - n, Block)
        /\ Suffix(rest_of(input), n + g, s)
        /\ \A i \in 1 .. g : got[i] = s[n + i]
    BY <1>4, SuffixRest
  <2> QED
    BY <2>1 DEF least
<1>6. /\ m \in Nat
      /\ m = IF n < mf.size
             THEN IF Block < mf.size - n THEN Block ELSE mf.size - n ELSE 0
  BY <1>4, Readable, RedirectAssumption
<1>7. ASSUME NEW i \in 1 .. m PROVE data[i] = w[n + i]
  <2> HIDE DEF w
  <2>1. i - 1 \in 0 .. m - 1 /\ n + i \in 1 .. mf.size /\ (n + i) - 1 = n + (i - 1)
    BY <1>2, <1>6, RedirectAssumption
  <2>2. read_data(mf, Block)[i - 1] = mf.mem[n + (i - 1)]
    BY <1>4, <2>1 DEF read_data
  <2> QED
    BY <1>2, <2>1, <2>2
<1>8. input = <<>> => g = 0
  <2>1. g = least(Len(input), Block)
    BY RestOf
  <2>2. input = <<>> => Len(input) = 0
    OBVIOUS
  <2> HIDE DEF g
  <2> QED
    BY <2>1, <2>2, RedirectAssumption DEF least
<1>9. cmp.matches /\ Len(s) < Block /\ Len(w) < Block => s = w
  BY DEF FileSoFar
<1> HIDE DEF got, g, m, w
<1>10. ASSUME s = w PROVE g = m
  <2>1. mf.size = Len(s)
    BY <1>2, <1>10
  <2> QED
    BY <1>4, <1>5, <1>6, <2>1, RedirectAssumption
<1>11. DOMAIN data = 1 .. m
  OBVIOUS
<1> HIDE DEF data
<1>12. ASSUME s = w PROVE got = data
  <2>1. data = [i \in 1 .. m |-> data[i]]
    BY DEF data
  <2>2. got = [i \in 1 .. g |-> got[i]]
    BY <1>3 DEF g
  <2> QED
    BY ZenonT(60), <1>5, <1>7, <1>10, <1>12, <2>1, <2>2
<1>13. ASSUME got = data, g > 0, Len(s) < Block, Len(w) < Block
       PROVE  s = w
  <2>1. n = 0
    BY <1>4, <1>8, <1>13
  <2>2. g = Len(s)
    BY <1>5, <1>13, <2>1, RedirectAssumption
  <2>3. m = Len(w)
    BY <1>2, <1>6, <1>13, <2>1
  <2>4. g = m
    <3>1. DOMAIN got = 1 .. g
      BY <1>3 DEF g
    <3> QED
      BY <1>3, <1>6, <1>11, <1>13, <3>1
  <2>5. \A i \in 1 .. Len(s) : s[i] = w[i]
    BY <1>5, <1>7, <1>13, <2>1, <2>2, <2>4
  <2>6. s \in Seq(Byte \cup {Uninit})
    OBVIOUS
  <2> QED
    BY <1>2, <2>2, <2>3, <2>4, <2>5, <2>6, SeqEqual
<1>14. CASE got = <<>>
  <2>1. cmp' = cmp /\ tpc' = "drain"
    BY <1>1, <1>14
  <2>2. ASSUME s = w, s # <<>> PROVE cmp.matches
    <3>1. Len(s) - n = 0
      BY <1>3, <1>4, <1>5, <1>14, RedirectAssumption DEF least
    <3>2. n > 0
      BY <2>2, <3>1
    <3> QED
      BY <1>4, <2>2, <3>2
  <2> QED
    BY <1>9, <2>1, <2>2 DEF FileSoFar, w
<1>15. CASE got # <<>> /\ m = 0
  <2>1. cmp' = cmp /\ tpc' = "drain"
    BY <1>1, <1>15
  <2>2. s # w
    BY <1>3, <1>10, <1>15
  <2> QED
    BY <1>9, <2>1, <2>2 DEF FileSoFar, w
<1>16. CASE got # <<>> /\ m # 0
  <2>1. cmp' = [cmp EXCEPT !.matches = (got = data)]
        /\ tpc' = IF g # m THEN "drain" ELSE "compare"
    BY <1>1, <1>16
  <2>2. cmp'.want = w /\ cmp'.matches = (got = data) /\ g > 0
    <3>1. cmp'.want = w /\ cmp'.matches = (got = data)
      BY <2>1 DEF FileCmp, w
    <3>2. g > 0
      BY <1>3, <1>16
    <3> QED
      BY <3>1, <3>2
  <2>3. cmp'.matches /\ Len(s) < Block /\ Len(w) < Block => s = w
    BY <1>13, <2>2
  <2>4. CASE g # m
    BY <1>12, <2>1, <2>2, <2>3, <2>4 DEF FileSoFar
  <2>5. CASE g = m
    <3>1. tpc' = "compare" /\ mf'.cur = n + g
      <4>1. ReadCall(Block)
        BY <1>1, <1>16
      <4>2. mf' = [mf EXCEPT !.cur = @ + m]
        BY <4>1 DEF ReadCall, mock_file_read, m
      <4>3. mf'.cur = mf.cur + m
        BY <4>2 DEF IInv, MockTypeOK
      <4> QED
        BY <1>4, <2>1, <2>5, <4>3
    <3>3. n + g > 0
      BY <1>3, <1>5, <2>2
    <3>2. s = w => (cmp'.matches <=> n + g > 0)
      BY <1>12, <2>2, <3>3
    <3>4. Len(s) < Block => rest_of(input) = <<>>
      <4>1. SUFFICES ASSUME Len(s) < Block PROVE rest_of(input) = <<>>
        OBVIOUS
      <4>2. n = 0 /\ g = Len(s)
        BY <1>4, <1>5, <1>8, <2>2, <4>1, RedirectAssumption
      <4>3. Len(rest_of(input)) = 0 /\ rest_of(input) \in Seq(Byte)
        BY <1>5, <4>2, RestOf DEF Suffix
      <4> QED
        BY <4>3
    <3> QED
      BY <1>5, <2>2, <2>3, <3>1, <3>2, <3>3, <3>4 DEF FileSoFar
  <2> QED
    BY <2>4, <2>5
<1> QED
  BY <1>14, <1>15, <1>16
(* The calls of a comparison keep the mock file whole.                     *)
LEMMA MockKeeps ==
    ASSUME IInv, Compared, [RedirectNext]_allVars
    PROVE  IInv'
<1>1. ASSUME UNCHANGED mockVars PROVE IInv'
  BY <1>1, StepKeeps
<1>2. ASSUME NEW k \in Outputs, MatchFile(k) PROVE IInv'
  BY <1>2, SeekKeeps DEF MatchFile
<1>3. CASE CompareFile
  <2>1. mpc = "idle"
    BY <1>3 DEF CompareFile, Compared, Comparing, StrCmp
  <2>2. CASE ReadCall(Block)
    BY <1>3, <2>1, <2>2, ReadKeeps, RedirectAssumption DEF CompareFile
  <2>3. CASE UNCHANGED <<mf, ret>>
    BY <1>1, <1>3, <2>3 DEF CompareFile, mockVars
  <2> QED
    BY <1>3, <2>2, <2>3 DEF CompareFile
<1>4. CASE Drain
  <2>1. CASE cmp.how = "file"
    <3>1. mpc = "idle" /\ cmp.orig \in Nat
      BY <1>4, <2>1 DEF Drain, Compared, Comparing, StrCmp, FileCmp
    <3>2. cmp.orig \in Int
      BY <3>1
    <3>3. SeekCall(cmp.orig, "SET") /\ UNCHANGED <<mpc, wr>>
      BY <1>4, <2>1 DEF Drain
    <3> QED
      BY <3>1, <3>2, <3>3, SeekKeeps
  <2>2. CASE cmp.how # "file"
    BY <1>1, <1>4, <2>2 DEF Drain, mockVars
  <2> QED
    BY <2>1, <2>2
<1>5. CASE TestStep
  <2>1. ASSUME NEW k \in Outputs, RedirectOut(k) \/ RedirectFails(k)
        PROVE  UNCHANGED mockVars
    BY <2>1 DEF RedirectOut, RedirectFails, mockVars
  <2>2. ASSUME NEW text \in Texts, PrintOut(text) \/ PrintErr(text) \/ FeedStdin(text)
        PROVE  UNCHANGED mockVars
    BY <2>2 DEF PrintOut, PrintErr, FeedStdin, mockVars
  <2>3. ASSUME Boot \/ FlushOut \/ ReadStdin \/ Exit
        PROVE  UNCHANGED mockVars
    BY <2>3 DEF Boot, FlushOut, ReadStdin, Exit, mockVars
  <2>4. ASSUME NEW k \in Outputs, NEW text \in Texts, MatchStr(k, text)
        PROVE  UNCHANGED mockVars
    BY <2>4 DEF MatchStr, mockVars
  <2> QED
    BY <1>1, <1>2, <1>5, <2>1, <2>2, <2>3, <2>4 DEF TestStep, Outputs
<1>6. CASE Waiting
  <2>1. ASSUME StdinRead \/ CompareStr \/ Return
        PROVE  UNCHANGED mockVars
    BY <2>1 DEF StdinRead, CompareStr, Return, mockVars
  <2> QED
    BY <1>1, <1>3, <1>4, <1>6, <2>1 DEF Waiting
<1>7. CASE MockNext
  BY <1>7, StepKeeps
<1> QED
  BY <1>1, <1>5, <1>6, <1>7 DEF RedirectNext, Sleeps, Over, allVars

(* A test redirects only when the memory of its reference is there, and    *)
(* writes no more of it from then on.                                      *)
LEMMA PreparedStep ==
    ASSUME Ends, IInv, Compared, Prepared, [RedirectNext]_allVars
    PROVE  Prepared'
<1>1. ASSUME UNCHANGED redir, mf'.size = mf.size, mf'.alloc = mf.alloc
      PROVE  Prepared'
  BY <1>1 DEF Prepared, Redirected
<1>2. ASSUME UNCHANGED <<redir, mf>> PROVE Prepared'
  BY <1>1, <1>2
<1>3. CASE Boot
  <2>1. /\ redir' = [redir EXCEPT ![CR_STDIN] = pipe_fds(fds, Len(pipes) + 1)]
        /\ mf' = mf
    BY <1>3 DEF Boot, cr_redirect, mockVars
  <2>2. \A k \in Outputs : redir'[k] = redir[k]
    BY <2>1, Numbers3 DEF Outputs, Ends, Types
  <2> QED
    BY <2>1, <2>2 DEF Prepared, Redirected
<1>4. ASSUME NEW k \in Outputs, RedirectOut(k), mpc \in {"idle", "closed"}
      PROVE  Prepared'
  <2>1. /\ mf' = mf /\ mf.cur = mf.size
        /\ \/ ret.call = "open"
           \/ ret.call = "write" /\ ret.count = mf.size
    BY <1>4 DEF RedirectOut, Redirectable, mockVars
  <2>2. mpc = "idle" /\ mf.size \in Nat /\ mf.alloc \in Nat
    BY <1>4, <2>1 DEF IInv, MockTypeOK, RetOK
  <2>3. CASE ret.call = "open"
    BY <2>1, <2>2, <2>3 DEF IInv, MemoryOK, RetOK, Prepared
  <2>4. CASE ret.call = "write" /\ ret.count = mf.size
    <3>1. mf.size > 0 => mf.size <= mf.alloc
      BY <2>1, <2>2, <2>4 DEF IInv, RetOK
    <3> QED
      BY <2>1, <2>2, <3>1 DEF Prepared
  <2> QED
    BY <2>1, <2>3, <2>4
<1>5. ASSUME NEW k \in Outputs, MatchFile(k) PROVE Prepared'
  <2>1. mf' = [mf EXCEPT !.cur = 0 % (SizeMax + 1)] /\ UNCHANGED redir
    BY <1>5 DEF MatchFile, Match, SeekCall, mock_file_seek
  <2> QED
    BY <1>1, <2>1
<1>6. CASE CompareFile
  <2>1. UNCHANGED redir /\ (mf' = mf \/ ReadCall(Block))
    BY <1>6 DEF CompareFile
  <2>2. CASE ReadCall(Block)
    BY <1>1, <2>1, <2>2 DEF ReadCall, mock_file_read
  <2> QED
    BY <1>1, <2>1, <2>2
<1>7. CASE Drain
  <2>1. UNCHANGED redir /\ (mf' = mf \/ SeekCall(cmp.orig, "SET"))
    BY <1>7 DEF Drain
  <2>2. CASE SeekCall(cmp.orig, "SET")
    <3>1. mf' = [mf EXCEPT !.cur = cmp.orig % (SizeMax + 1)]
      BY <2>2 DEF SeekCall, mock_file_seek
    <3> QED
      BY <1>1, <2>1, <3>1
  <2> QED
    BY <1>1, <2>1, <2>2
\* Only the input is redirected while the reference is written.
<1>8. CASE Preparing /\ MockNext /\ UNCHANGED testVars
  <2>1. ASSUME NEW k \in Outputs, Redirected(k) PROVE FALSE
    <3>1. Redirected(CR_STDIN)
      BY <1>8 DEF Preparing, Ends, Compares
    <3>2. k \in StdFd /\ CR_STDIN \in StdFd /\ k # CR_STDIN
      BY Numbers3
    <3>3. PipeOf(k) \in 1 .. 1 /\ PipeOf(CR_STDIN) \in 1 .. 1
      BY <1>8, <2>1, <3>1, <3>2 DEF Preparing, Ends, Table
    <3>4. PipeOf(k) # PipeOf(CR_STDIN)
      BY <2>1, <3>1, <3>2 DEF Ends, Apart
    <3> QED
      BY <3>3, <3>4
  <2> QED
    BY <1>8, <2>1 DEF Prepared, Redirected, testVars
<1>9. CASE TestStep /\ mpc \in {"idle", "closed"}
  <2>1. ASSUME NEW k \in Outputs, RedirectFails(k)
        PROVE  UNCHANGED <<redir, mf>>
    BY <2>1 DEF RedirectFails, mockVars
  <2>2. ASSUME NEW text \in Texts, PrintOut(text) \/ PrintErr(text) \/ FeedStdin(text)
        PROVE  UNCHANGED <<redir, mf>>
    BY <2>2 DEF PrintOut, PrintErr, FeedStdin, mockVars
  <2>3. ASSUME FlushOut \/ ReadStdin \/ Exit
        PROVE  UNCHANGED <<redir, mf>>
    BY <2>3 DEF FlushOut, ReadStdin, Exit, mockVars
  <2>4. ASSUME NEW k \in Outputs, NEW text \in Texts, MatchStr(k, text)
        PROVE  UNCHANGED <<redir, mf>>
    BY <2>4 DEF MatchStr, Match, mockVars
  <2> QED
    BY <1>2, <1>3, <1>4, <1>5, <1>9, <2>1, <2>2, <2>3, <2>4 DEF TestStep, Outputs
<1>10. CASE Waiting
  <2>1. ASSUME StdinRead \/ CompareStr \/ Return
        PROVE  UNCHANGED <<redir, mf>>
    BY <2>1 DEF StdinRead, CompareStr, Return, mockVars
  <2> QED
    BY <1>2, <1>6, <1>7, <1>10, <2>1 DEF Waiting
<1>11. CASE UNCHANGED allVars
  BY <1>2, <1>11 DEF allVars, mockVars, testVars
<1> QED
  BY <1>8, <1>9, <1>10, <1>11 DEF RedirectNext, Sleeps, Over

(* A comparison starts at the beginning of what was printed.               *)
LEMMA MatchStarts ==
    ASSUME Ends, Streams, NEW k \in Outputs, NEW c, c.fd = k, Match(k, c)
    PROVE  /\ k \in StdFd /\ tpc' = "compare" /\ cmp' = c /\ lost' = lost /\ sent' = sent
           /\ input' \in Seq(Byte) /\ sent[k] \in Seq(Byte)
           /\ k \notin lost => input' = sent[k]
<1>1. /\ tpc = "idle" /\ tpc' = "compare" /\ files[k] # Dangling /\ fds[k][1] = "w"
      /\ files' = [files EXCEPT ![k] = cr_get_redirected(k)]
      /\ cmp' = c
      /\ UNCHANGED <<fds, pipes, redir, sent, lost>>
  BY DEF Match, Captured, IsWriteEnd
<1>2. k \in StdFd /\ k # CR_STDIN
  BY Numbers3
<1>3. Redirected(k)
  <2>1. ~Redirected(k) => fds[k] = Terminal(k)
    BY <1>2 DEF Ends, Table
  <2> QED
    BY <1>1, <2>1, Objects
<1>4. /\ cr_get_redirected(k) = outer(k) /\ PipeOf(outer(k)) = PipeOf(k)
      /\ PipeOf(k) \in 1 .. Len(pipes)
  BY <1>1, <1>2, <1>3, KeptEnd
<1>5. source' = PipeOf(k)
  <2>1. files'[k] = outer(k)
    BY <1>1, <1>2, <1>4 DEF Ends, Types
  <2>2. source' = fds'[files'[cmp'.fd]][2]
    BY DEF source, PipeOf
  <2>3. source' = fds[outer(k)][2]
    BY <1>1, <2>1, <2>2
  <2> QED
    BY <1>4, <2>3 DEF PipeOf
<1>6. input' = pipes[PipeOf(k)].data
  BY <1>1, <1>5 DEF input
<1>7. pipes[PipeOf(k)] \in PipeRec
  BY <1>4 DEF Ends, Types
<1>8. input' \in Seq(Byte)
  BY <1>6, <1>7 DEF PipeRec
<1>9. Watched(k)
  BY <1>1, <1>2, <1>3 DEF Watched, Comparing
<1>10. k \notin lost => input' = sent[k]
  BY <1>2, <1>6, <1>9 DEF Streams, Holds
<1> QED
  BY <1>1, <1>2, <1>8, <1>10 DEF Ends, Types

(* The input of a comparison is what it did not read yet.                  *)
LEMMA InputNext ==
    ASSUME Ends, tpc \in Comparing, Consume, cmp'.fd = cmp.fd,
           UNCHANGED <<fds, files>>
    PROVE  input' = rest_of(input)
<1>1. source \in 1 .. Len(pipes) /\ input \in Seq(Byte)
  BY Sourced
<1>2. source' = source
  BY DEF source, PipeOf
<1>3. rest_of(input) \in Seq(Byte)
  BY <1>1, RestOf
<1>4. pipes' = [pipes EXCEPT ![source].data = rest_of(input)]
  BY DEF Consume
<1>5. pipes'[source].data = rest_of(input)
  BY <1>1, <1>3, <1>4, PipeData DEF Ends, Types
<1> QED
  BY <1>2, <1>5 DEF input

LEMMA ComparedStep ==
    ASSUME Ends, Streams, IInv, Compared, Prepared, [RedirectNext]_allVars
    PROVE  Compared'
<1>1. ASSUME tpc' \notin Comparing PROVE Compared'
  BY <1>1, SMTT(30) DEF Compared
<1>2. ASSUME UNCHANGED allVars PROVE Compared'
  BY <1>2 DEF Compared, allVars, mockVars, testVars, StrSoFar, FileSoFar, FileCmp,
     Reference, input, source, PipeOf
<1>3. ASSUME NEW k \in Outputs, NEW text \in Texts, MatchStr(k, text)
      PROVE  Compared'
  <2> DEFINE c == [fd |-> k, how |-> "str", want |-> text, rest |-> text,
                   matches |-> TRUE]
  <2>1. text \in Seq(Byte)
    BY RedirectAssumption
  <2>2. Match(k, c)
    BY <1>3 DEF MatchStr
  <2>3. /\ k \in StdFd /\ tpc' = "compare" /\ cmp' = c /\ lost' = lost /\ sent' = sent
        /\ input' \in Seq(Byte) /\ sent[k] \in Seq(Byte)
        /\ k \notin lost => input' = sent[k]
    BY <2>2, MatchStarts
  <2>4. cmp' \in StrCmp
    BY <2>1, <2>3 DEF StrCmp
  <2>5. ASSUME k \notin lost PROVE StrSoFar(sent[cmp.fd])'
    <3>1. Suffix(input', 0, sent[k]) /\ Suffix(text, 0, text) /\ 0 \in 0 .. Len(sent[k])
      BY <2>1, <2>3, <2>5, SuffixAll
    <3> QED
      BY <2>3, <3>1 DEF StrSoFar
  <2> QED
    BY <2>3, <2>4, <2>5 DEF Compared
<1>4. ASSUME NEW k \in Outputs, MatchFile(k) PROVE Compared'
  <2> DEFINE c == [fd |-> k, how |-> "file", orig |-> mf.cur, matches |-> FALSE,
                   want |-> Reference]
  <2>1. Match(k, c) /\ mpc = "idle" /\ mpc' = "idle" /\ SeekCall(0, "SET")
    BY <1>4 DEF MatchFile, Reference
  <2>2. /\ k \in StdFd /\ tpc' = "compare" /\ cmp' = c /\ lost' = lost /\ sent' = sent
        /\ input' \in Seq(Byte) /\ sent[k] \in Seq(Byte)
        /\ k \notin lost => input' = sent[k]
    BY <2>1, MatchStarts
  <2>3. mf'.cur = 0 /\ mf'.size = mf.size /\ mf'.mem = mf.mem
    <3>1. mf' = [mf EXCEPT !.cur = 0 % (SizeMax + 1)]
      BY <2>1 DEF SeekCall, mock_file_seek
    <3>2. 0 % (SizeMax + 1) = 0
      BY MockFileAssumption
    <3> QED
      BY <3>1, <3>2 DEF IInv, MockTypeOK
  <2>4. Reference' = Reference
    BY <2>3 DEF Reference
  <2>5. (cmp \in FileCmp)'
    <3>1. mf.cur \in Nat
      BY DEF IInv, MockTypeOK
    <3> QED
      BY <2>2, <2>4, <3>1 DEF FileCmp
  <2>6. ASSUME k \notin lost PROVE FileSoFar(sent[cmp.fd])'
    <3>1. Suffix(input', 0, sent[k]) /\ 0 \in 0 .. Len(sent[k])
      BY <2>2, <2>6, SuffixAll
    <3> QED
      BY <2>2, <2>3, <3>1 DEF FileSoFar
  <2> QED
    BY <2>1, <2>2, <2>5, <2>6 DEF Compared
<1>5. CASE CompareStr
  <2>1. /\ tpc = "compare" /\ tpc' \in Comparing /\ cmp.how = "str" /\ cmp \in StrCmp
        /\ cmp.fd \notin lost => StrSoFar(sent[cmp.fd])
    BY <1>5 DEF CompareStr, Compared, Comparing, FileCmp
  <2>2. cmp'.fd = cmp.fd /\ UNCHANGED <<fds, files, sent, lost>> /\ Consume
    BY <1>5, <2>1 DEF CompareStr, StrCmp
  <2>3. input' = rest_of(input) /\ input \in Seq(Byte) /\ cmp.fd \in StdFd
    BY <2>1, <2>2, InputNext, Sourced DEF Comparing
  <2>4. cmp' \in StrCmp
    <3> DEFINE g == Len(block_of(input))
               r == SubSeq(cmp.rest, g + 1, Len(cmp.rest))
    <3>1. g \in Nat /\ cmp.rest \in Seq(Byte)
      BY <2>1, <2>3, RestOf DEF StrCmp
    <3> HIDE DEF g
    <3>2. r \in Seq(Byte)
      BY <3>1
    <3> HIDE DEF r
    <3>3. \/ cmp' = cmp \/ cmp' = [cmp EXCEPT !.rest = r]
          \/ cmp' = [cmp EXCEPT !.matches = FALSE]
      BY <1>5 DEF CompareStr, r, g
    <3> QED
      BY <2>1, <3>2, <3>3 DEF StrCmp
  <2>5. ASSUME cmp.fd \notin lost PROVE StrSoFar(sent[cmp.fd])'
    <3>1. PICK s \in Seq(Byte) : s = sent[cmp.fd] /\ s = sent'[cmp'.fd]
      BY <2>2, <2>3 DEF Ends, Types
    <3>2. StrSoFar(s)
      BY <2>1, <2>5, <3>1
    <3>3. StrSoFar(s)'
      BY <1>5, <2>1, <2>3, <3>2, StrTurn
    <3> QED
      BY <3>1, <3>3
  <2> QED
    BY <2>2, <2>4, <2>5 DEF Compared
<1>6. CASE CompareFile
  <2>1. /\ tpc = "compare" /\ tpc' \in Comparing /\ cmp.how = "file" /\ cmp \in FileCmp
        /\ mpc = "idle" /\ mpc' = "idle"
        /\ cmp.fd \notin lost => FileSoFar(sent[cmp.fd])
    BY <1>6 DEF CompareFile, Compared, Comparing, StrCmp
  <2>2. cmp'.fd = cmp.fd /\ UNCHANGED <<fds, files, sent, lost>> /\ Consume
    BY <1>6, <2>1 DEF CompareFile, FileCmp
  <2>6. mf.size <= mf.alloc
    BY <2>1 DEF Ends, Compares, Comparing, Prepared
  <2>3. input' = rest_of(input) /\ input \in Seq(Byte) /\ cmp.fd \in StdFd
    BY <2>1, <2>2, InputNext, Sourced DEF Comparing
  <2>4. (cmp \in FileCmp)'
    <3>1. mf'.size = mf.size /\ mf'.mem = mf.mem
      <4>1. CASE mf' = mf
        BY <4>1
      <4>2. CASE ReadCall(Block)
        BY <4>2 DEF ReadCall, mock_file_read
      <4> QED
        BY <1>6, <4>1, <4>2 DEF CompareFile
    <3>2. Reference' = Reference
      BY <3>1 DEF Reference
    <3>3. \/ cmp' = cmp
          \/ \E b \in BOOLEAN : cmp' = [cmp EXCEPT !.matches = b]
      BY <1>6 DEF CompareFile
    <3> QED
      BY <2>1, <3>2, <3>3 DEF FileCmp
  <2>5. ASSUME cmp.fd \notin lost PROVE FileSoFar(sent[cmp.fd])'
    <3>1. PICK s \in Seq(Byte) : s = sent[cmp.fd] /\ s = sent'[cmp'.fd]
      BY <2>2, <2>3 DEF Ends, Types
    <3>2. FileSoFar(s)
      BY <2>1, <2>5, <3>1
    <3>3. FileSoFar(s)'
      BY <1>6, <2>1, <2>3, <2>6, <3>2, FileTurn
    <3> QED
      BY <3>1, <3>3
  <2> QED
    BY <2>1, <2>2, <2>4, <2>5 DEF Compared
\* No other step is in a comparison, or starts one.
<1>7. ASSUME \/ Boot \/ FlushOut \/ ReadStdin \/ Exit \/ StdinRead \/ Drain \/ Return
             \/ \E k \in Outputs : RedirectOut(k) \/ RedirectFails(k)
             \/ \E text \in Texts : PrintOut(text) \/ PrintErr(text) \/ FeedStdin(text)
      PROVE  tpc' \notin Comparing
  BY <1>7 DEF Boot, FlushOut, ReadStdin, Exit, StdinRead, Drain, Return, RedirectOut,
     RedirectFails, PrintOut, PrintErr, FeedStdin, Written, Comparing
<1>8. CASE TestStep
  BY <1>1, <1>3, <1>4, <1>7, <1>8 DEF TestStep, Outputs
<1>9. CASE Waiting
  BY <1>1, <1>5, <1>6, <1>7, <1>9 DEF Waiting
<1>10. CASE Preparing /\ MockNext /\ UNCHANGED testVars
  BY <1>1, <1>10 DEF Preparing, testVars, Comparing
<1> QED
  BY <1>2, <1>8, <1>9, <1>10 DEF RedirectNext, Sleeps, Over
(* What a comparison returns is what it has seen.                          *)
LEMMA VerdictStep ==
    ASSUME Ends, Streams, IInv, Compared, VerdictTrue, [RedirectNext]_allVars
    PROVE  VerdictTrue'
<1>1. ASSUME UNCHANGED verdict PROVE VerdictTrue'
  BY <1>1 DEF VerdictTrue, ReadVerdict, StrVerdict, FileVerdict
<1>2. CASE Return
  <2>1. verdict' = NoCmp /\ verdict'.how = "none"
    BY <1>2 DEF Return, NoCmp
  <2> QED
    BY <2>1 DEF VerdictTrue, ReadVerdict, StrVerdict, FileVerdict
<1>3. CASE StdinRead
  <2>1. tpc = "read" /\ CR_STDIN \in StdFd /\ Redirected(CR_STDIN) /\ CR_STDIN \notin lost
    BY <1>3, Numbers3 DEF StdinRead, Ends, Compares, Types
  <2>2. Watched(CR_STDIN)
    BY <2>1 DEF Watched, Comparing
  <2>3. pipes[PipeOf(CR_STDIN)].data = sent[CR_STDIN]
    BY <2>1, <2>2 DEF Streams, Holds
  <2>4. /\ verdict'.how = "read" /\ verdict'.got = pipes[PipeOf(CR_STDIN)].data
        /\ verdict'.want = sent[CR_STDIN]
    BY <1>3 DEF StdinRead
  <2> QED
    BY <2>3, <2>4 DEF VerdictTrue, ReadVerdict, StrVerdict, FileVerdict
<1>4. CASE Drain
  <2>1. /\ tpc = "drain" /\ cmp.fd \in StdFd /\ input \in Seq(Byte)
        /\ sent[cmp.fd] \in Seq(Byte)
    BY <1>4, Sourced DEF Drain, Comparing, Ends, Types
  <2>2. /\ verdict'.how = cmp.how /\ verdict'.want = cmp.want
        /\ verdict'.got = sent[cmp.fd] /\ verdict'.whole = (cmp.fd \notin lost)
        /\ verdict'.result = result(cmp)
    BY <1>4 DEF Drain
  <2>3. CASE cmp.how = "str"
    <3>1. cmp \in StrCmp /\ (cmp.fd \notin lost => StrSoFar(sent[cmp.fd]))
      BY <2>1, <2>3 DEF Compared, Comparing, FileCmp
    <3>2. ASSUME cmp.fd \notin lost
          PROVE  result(cmp) <=> sent[cmp.fd] = cmp.want
      <4>1. /\ cmp.want \in Seq(Byte) /\ cmp.rest \in Seq(Byte) /\ cmp.matches \in BOOLEAN
        BY <3>1 DEF StrCmp
      <4>2. CASE ~cmp.matches
        BY <3>1, <3>2, <4>2 DEF StrSoFar, result
      <4>3. CASE cmp.matches
        <5>1. PICK n \in 0 .. Len(sent[cmp.fd]) :
                 /\ Suffix(input, n, sent[cmp.fd]) /\ Suffix(cmp.rest, n, cmp.want)
                 /\ \A i \in 1 .. n : cmp.want[i] = sent[cmp.fd][i]
          BY <3>1, <3>2, <4>3 DEF StrSoFar
        <5>2. input = <<>>
          BY <2>1, <3>1, <3>2, <4>3 DEF StrSoFar
        <5>3. cmp.rest = <<>> <=> sent[cmp.fd] = cmp.want
          BY SMTT(30), <2>1, <4>1, <5>1, <5>2, SuffixSame
        <5> QED
          BY <2>3, <4>3, <5>3 DEF result
      <4> QED
        BY <4>2, <4>3
    <3> QED
      BY <2>2, <2>3, <3>2 DEF VerdictTrue, ReadVerdict, StrVerdict, FileVerdict
  <2>4. CASE cmp.how = "file"
    <3>1. cmp \in FileCmp /\ (cmp.fd \notin lost => FileSoFar(sent[cmp.fd]))
      BY <2>1, <2>4 DEF Compared, Comparing, StrCmp
    <3>2. result(cmp) <=> cmp.matches
      BY <2>4 DEF result
    <3> QED
      BY <2>1, <2>2, <2>4, <3>1, <3>2
         DEF VerdictTrue, ReadVerdict, StrVerdict, FileVerdict, FileSoFar
  <2> QED
    BY <2>1, <2>3, <2>4 DEF Compared, Comparing, StrCmp, FileCmp
<1>5. CASE CompareStr \/ CompareFile
  BY <1>1, <1>5 DEF CompareStr, CompareFile
<1>6. CASE TestStep
  <2>1. ASSUME \/ Boot \/ FlushOut \/ ReadStdin \/ Exit
               \/ \E k \in Outputs : RedirectOut(k) \/ RedirectFails(k)
               \/ \E text \in Texts : PrintOut(text) \/ PrintErr(text) \/ FeedStdin(text)
        PROVE  UNCHANGED verdict
    BY <2>1 DEF Boot, FlushOut, ReadStdin, Exit, RedirectOut, RedirectFails,
       PrintOut, PrintErr, FeedStdin, cr_redirect
  <2>2. ASSUME NEW k \in Outputs, MatchFile(k) \/ \E text \in Texts : MatchStr(k, text)
        PROVE  UNCHANGED verdict
    BY <2>2 DEF MatchFile, MatchStr, Match
  <2> QED
    BY <1>1, <1>6, <2>1, <2>2 DEF TestStep, Outputs
<1> QED
  BY <1>1, <1>2, <1>3, <1>4, <1>5, <1>6
     DEF RedirectNext, Waiting, Sleeps, Over, allVars, testVars

(* What a comparison returns is the truth, for every size of block and     *)
(* pipe, whatever was printed and however it was cut into blocks           *)
(* (cr_file_match_str, cr_file_match_file).                                *)
THEOREM VerdictsTrue == RedirectSpec => []VerdictTrue
<1> DEFINE Inv == /\ Ends /\ Streams /\ IInv /\ Compared /\ Prepared
                  /\ VerdictTrue
<1>1. ASSUME RedirectInit PROVE Inv
  <2>1. tpc = "boot" /\ verdict.how = "none"
    BY <1>1 DEF RedirectInit, TestInit, NoCmp
  <2>3. Prepared
    BY <1>1 DEF RedirectInit, TestInit, Prepared, Redirected, Outputs, StdFd
  <2>2. Compared /\ VerdictTrue
    BY <2>1 DEF Compared, Comparing, VerdictTrue, ReadVerdict, StrVerdict, FileVerdict
  <2> QED
    BY <1>1, <2>2, <2>3, EndsInit, StreamsInit, InitOK DEF RedirectInit
<1>2. Inv /\ [RedirectNext]_allVars => Inv'
  BY EndsStep, StreamsStep, MockKeeps, ComparedStep, PreparedStep, VerdictStep
<1> QED
  BY <1>1, <1>2, PTL DEF RedirectSpec
=============================================================================
