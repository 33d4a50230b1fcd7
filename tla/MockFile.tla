------------------------------ MODULE MockFile ------------------------------
(***************************************************************************)
(* src/compat/mockfile.c: a file whose bytes are in a region of memory     *)
(* that grows by half whenever a write does not fit.                       *)
(*                                                                         *)
(* mf is struct memfile.  Its region is mem, a function on the alloc bytes *)
(* that are allocated; region_size is what the code believes them to be.   *)
(* The two differ once an allocation failed: the file can still be used,   *)
(* with a size that its memory does not have.  The loop of mock_file_write *)
(* that finds the new size of the region is a step of its own, so that     *)
(* what it relies on can be stated.                                        *)
(***************************************************************************)
EXTENDS Integers

CONSTANTS
    Byte,         \* the bytes tests write
    Uninit,       \* memory that malloc or realloc left undefined
    MaxSize,      \* max_size
    FirstRegion,  \* 4096
    SizeMax,      \* SIZE_MAX
    Writes,       \* the buffers written: functions on 0 .. count - 1
    Counts,       \* the counts read
    Offsets       \* the offsets seeked to

ASSUME MockFileAssumption ==
    /\ MaxSize \in Nat /\ SizeMax \in Nat /\ MaxSize <= SizeMax
    /\ FirstRegion \in Nat /\ FirstRegion > 1
    /\ Uninit \notin Byte
    /\ \A w \in Writes : /\ w.count \in Nat
                         /\ w.buf \in [0 .. w.count - 1 -> Byte]
    /\ Counts \subseteq Nat
    /\ Offsets \subseteq Int

VARIABLES
    mf,    \* [size, region_size, cur, mem], the bytes allocated for mem, and
           \* history: newptr, what the last allocation returned
    mpc,   \* "idle", "grow", "realloc" or "copy" in a write, "closed", and
           \* "outside": memory that is not the file's was read or written
    wr,    \* the buffer being written, the size and what was held before it
    ret    \* the last call and what it returned

mockVars == <<mf, mpc, wr, ret>>

Region(n) == [0 .. n - 1 -> Byte \cup {Uninit}]
NULL      == 0

\* The last allocation failed.
starved   == mf.newptr = NULL

NoWrite   == [count |-> 0, buf |-> <<>>, before |-> 0, held |-> 0]

\* cr_mock_file_size
MockInit ==
    /\ mf = [size |-> 0, region_size |-> FirstRegion, cur |-> 0,
             alloc |-> FirstRegion, newptr |-> 1,
             mem |-> [i \in 0 .. FirstRegion - 1 |-> Uninit]]
    /\ mpc = "idle" /\ wr = NoWrite
    /\ ret = [call |-> "open"]

----------------------------------------------------------------------------
(* Additions that neither wrap nor pass a limit.                           *)

least(size, cur) == IF cur < size THEN cur ELSE size

size_safe_add(size, cur, off) ==
    least(size, IF cur < SizeMax - off THEN cur + off ELSE SizeMax)

off_safe_add(size, cur, off) ==
    least(size, IF off >= 0
                THEN IF cur < SizeMax - off THEN cur + off ELSE SizeMax
                ELSE IF cur > -off THEN cur + off ELSE 0)

----------------------------------------------------------------------------
(* mock_file_read.                                                         *)

\* How many bytes a read of count gets.
readable(m, count) ==
    IF m.cur >= m.size \/ count = 0 THEN 0
    ELSE size_safe_add(m.size, m.cur, count) - m.cur

read_data(m, count) ==
    [i \in 0 .. readable(m, count) - 1 |-> m.mem[m.cur + i]]

mock_file_read(m, count) == [m EXCEPT !.cur = @ + readable(m, count)]

ReadCall(count) ==
    /\ mf' = mock_file_read(mf, count)
    /\ ret' = [call |-> "read", asked |-> count, data |-> read_data(mf, count)]

\* The bytes of the read are the file's.
has_bytes(m, count) ==
    readable(m, count) = 0 \/ m.cur + readable(m, count) <= m.alloc

MockRead ==
    /\ mpc = "idle"
    /\ \E count \in Counts : has_bytes(mf, count) /\ ReadCall(count)
    /\ UNCHANGED <<mpc, wr>>

\* They are not: nothing is said of what follows.
Undefined(reach) ==
    /\ mpc' = "outside"
    /\ ret' = [call |-> "undefined", reach |-> reach]
    /\ UNCHANGED <<mf, wr>>

ReadOutside ==
    /\ mpc = "idle"
    /\ \E count \in Counts : /\ ~has_bytes(mf, count)
                             /\ Undefined(mf.cur + readable(mf, count))

----------------------------------------------------------------------------
(* mock_file_write.                                                        *)

\* Where the write of w ends.
write_end(w) == size_safe_add(MaxSize, mf.cur, w.count)

MockWriteRefused ==
    /\ mpc = "idle"
    /\ \E w \in Writes :
          \/ /\ w.count = 0
             /\ ret' = [call |-> "write", given |-> 0, count |-> 0]
          \/ /\ w.count # 0 /\ mf.cur >= MaxSize
             /\ ret' = [call |-> "full"]
    /\ UNCHANGED <<mf, mpc, wr>>

MockWrite ==
    /\ mpc = "idle" /\ mf.cur < MaxSize
    /\ \E w \in Writes :
          /\ w.count # 0
          /\ wr' = [count |-> w.count, buf |-> w.buf, before |-> mf.size,
                    held |-> least(mf.size, mf.alloc)]
          /\ mf' = [mf EXCEPT !.size = IF @ < write_end(w) THEN write_end(w)
                                                           ELSE @]
    /\ mpc' = IF mf'.size > mf.region_size THEN "grow" ELSE "copy"
    /\ UNCHANGED ret

\* region_size * 3 / 2, in a size_t.
half_again(n) == ((n * 3) % (SizeMax + 1)) \div 2

\* A slip: the region grown once, however much is to be written.
Grow_Once ==
    /\ mpc = "grow"
    /\ mf' = [mf EXCEPT !.region_size = half_again(@)]
    /\ mpc' = "realloc"
    /\ UNCHANGED <<wr, ret>>

\* One turn of the loop.
Grow ==
    /\ mpc = "grow"
    /\ mf' = [mf EXCEPT !.region_size = half_again(@)]
    /\ mpc' = IF mf.size > mf'.region_size THEN "grow" ELSE "realloc"
    /\ UNCHANGED <<wr, ret>>

Realloc ==
    /\ mpc = "realloc"
    /\ mf' = [mf EXCEPT !.alloc = mf.region_size, !.newptr = 1,
                        !.mem = [i \in 0 .. mf.region_size - 1 |->
                                   IF i < mf.alloc THEN @[i] ELSE Uninit]]
    /\ mpc' = "copy"
    /\ UNCHANGED <<wr, ret>>

\* EIO: size and region_size stay what the write made of them.
ReallocFails ==
    /\ mpc = "realloc"
    /\ mpc' = "idle"
    /\ mf' = [mf EXCEPT !.newptr = NULL]
    /\ wr' = NoWrite
    /\ ret' = [call |-> "no memory", given |-> wr.count]

\* A slip: the whole buffer copied, when only a part of it fits.
Copy_All ==
    /\ mpc = "copy" /\ write_end(wr) <= mf.alloc
    /\ mf' = [mf EXCEPT !.cur = @ + wr.count,
                        !.mem = [i \in DOMAIN @ |->
                                   IF i >= mf.cur /\ i < mf.cur + wr.count
                                   THEN wr.buf[i - mf.cur] ELSE @[i]]]
    /\ ret' = [call |-> "write", given |-> wr.count, count |-> wr.count,
               data |-> wr.buf]
    /\ wr' = NoWrite
    /\ mpc' = "idle"

\* memcpy, and the return.
Copy ==
    /\ mpc = "copy" /\ write_end(wr) <= mf.alloc
    /\ mf' = [mf EXCEPT !.cur = write_end(wr),
                        !.mem = [i \in DOMAIN @ |->
                                   IF i >= mf.cur /\ i < write_end(wr)
                                   THEN wr.buf[i - mf.cur] ELSE @[i]]]
    /\ ret' = [call |-> "write", given |-> wr.count,
               count |-> write_end(wr) - mf.cur, data |-> wr.buf]
    /\ wr' = NoWrite
    /\ mpc' = "idle"

CopyOutside ==
    /\ mpc = "copy" /\ write_end(wr) > mf.alloc
    /\ Undefined(write_end(wr))

----------------------------------------------------------------------------
(* mock_file_seek and mock_file_close.                                     *)

\* An absolute offset is taken as it is, a negative one as a size_t.
mock_file_seek(m, off, whence) ==
    [m EXCEPT !.cur =
        CASE whence = "SET" -> off % (SizeMax + 1)
          [] whence = "CUR" -> off_safe_add(m.size, m.cur, off)
          [] whence = "END" -> off_safe_add(m.size, m.size, off)]

SeekCall(off, whence) ==
    /\ mf' = mock_file_seek(mf, off, whence)
    /\ ret' = [call |-> "seek", whence |-> whence, at |-> mf'.cur]

MockSeek ==
    /\ mpc = "idle"
    /\ \E off \in Offsets, whence \in {"SET", "CUR", "END"} : SeekCall(off, whence)
    /\ UNCHANGED <<mpc, wr>>

MockClose ==
    /\ mpc = "idle"
    /\ mpc' = "closed"
    /\ ret' = [call |-> "close"]
    /\ UNCHANGED <<mf, wr>>

MockNext == \/ MockRead \/ ReadOutside
            \/ MockWriteRefused \/ MockWrite \/ Grow \/ Realloc \/ ReallocFails
            \/ Copy \/ CopyOutside
            \/ MockSeek \/ MockClose
MockSpec == MockInit /\ [][MockNext]_mockVars

----------------------------------------------------------------------------
(* The types of the file and of the write under way, which the proofs use. *)
MockTypeOK ==
    /\ mf.size \in Nat /\ mf.region_size \in Nat /\ mf.cur \in Nat
    /\ mf.alloc \in Nat /\ mf.mem \in Region(mf.alloc)
    /\ mf.newptr \in {NULL, 1}
    /\ mpc \in {"idle", "grow", "realloc", "copy", "closed", "outside"}
    /\ mpc \in {"grow", "realloc", "copy"} =>
          /\ wr.count \in Nat \ {0} /\ wr.before \in Nat /\ wr.held \in Nat
          /\ wr.buf \in [0 .. wr.count - 1 -> Byte]

(* Unless an allocation failed and none succeeded since, no access leaves  *)
(* the memory of the file, wherever the cursor was moved to and however    *)
(* far the region had to grow; and the file never has a size above         *)
(* max_size, nor a cursor before its start, whatever failed.               *)
InBounds ==
    /\ mf.size <= MaxSize /\ mf.cur >= 0
    /\ mpc = "outside" => starved
    /\ mpc = "idle" /\ ~starved => mf.size <= mf.alloc

(* The mock implements a file of bytes that may fail to get memory: a      *)
(* write that is still growing its region has not happened yet, and one    *)
(* that fails leaves the file longer than the bytes that it holds.         *)
Length == IF wr.count = 0 THEN mf.size ELSE wr.before
Held   == IF wr.count = 0 THEN least(mf.size, mf.alloc) ELSE wr.held
File == INSTANCE ByteFile WITH
    contents <- [i \in 0 .. Held - 1 |-> mf.mem[i]],
    held     <- Held,
    length   <- Length,
    position <- mf.cur
ImplementsByteFile == File!Spec
=============================================================================
