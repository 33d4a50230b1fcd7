------------------------------ MODULE ByteFile ------------------------------
(***************************************************************************)
(* What include/criterion/redirect.h promises of cr_mock_file_size, a file *)
(* of bytes that never has more than max_size of them, and what is left of *)
(* the promise when memory runs out: the file stays, but some of the bytes *)
(* that its length counts are nowhere, and who reads or writes those is    *)
(* promised nothing any more.  A byte that was skipped over and never      *)
(* written is Uninit.                                                      *)
(*                                                                         *)
(* ret is the last call and what it gave its caller.                       *)
(***************************************************************************)
EXTENDS Naturals

CONSTANTS
    Byte,     \* the bytes that are written
    Uninit,   \* the value of a byte that was not
    MaxSize   \* max_size

VARIABLES
    contents, \* the bytes, a function on 0 .. held - 1
    held,     \* how many there are: length, unless memory ran out
    length,
    position,
    ret

fileVars == <<contents, held, length, position, ret>>

Bytes(n)    == [0 .. n - 1 -> Byte \cup {Uninit}]
Least(m, n) == IF m < n THEN m ELSE n
Most(m, n)  == IF m < n THEN n ELSE m

Init ==
    /\ held = 0 /\ length = 0 /\ contents \in Bytes(0)
    /\ position = 0
    /\ ret = [call |-> "open"]

\* As many bytes as asked for and there are from the position on.
Read ==
    /\ ret'.call = "read"
    /\ LET got == IF position < length
                  THEN Least(ret'.asked, length - position) ELSE 0
       IN  /\ got > 0 => position + got <= held
           /\ ret'.data = [i \in 0 .. got - 1 |-> contents[position + i]]
           /\ position' = position + got
    /\ UNCHANGED <<contents, held, length>>

\* As many of the bytes given as there is room for, and no other is touched.
Write ==
    /\ ret'.call = "write" /\ ret'.count > 0
    /\ position < MaxSize
    /\ ret'.count = Least(ret'.given, MaxSize - position)
    /\ position' = position + ret'.count
    /\ length' = Most(length, position')
    /\ held <= held' /\ position' <= held' /\ held' <= length'
    /\ held = length => held' = length'
    /\ contents' \in Bytes(held')
    /\ \A i \in 0 .. held' - 1 :
          IF i \in position .. position' - 1
          THEN contents'[i] = ret'.data[i - position]
          ELSE i < held => contents'[i] = contents[i]

\* Nothing to write, or no room at all.
WriteNothing ==
    /\ \/ ret'.call = "write" /\ ret'.given = 0
       \/ ret'.call = "full" /\ position >= MaxSize
    /\ UNCHANGED <<contents, held, length, position>>

\* No memory: the length is that of the file after the write, and the bytes
\* are those from before it.
NoMemory ==
    /\ ret'.call = "no memory"
    /\ position < MaxSize
    /\ length' = position + Least(ret'.given, MaxSize - position)
    /\ length < length'
    /\ held <= held' /\ held' < length'
    /\ contents' \in Bytes(held')
    /\ \A i \in 0 .. held - 1 : contents'[i] = contents[i]
    /\ UNCHANGED position

\* A read or a write of bytes that the length counts and that are nowhere.
Undefined ==
    /\ ret'.call = "undefined"
    /\ held < length
    /\ held < ret'.reach /\ ret'.reach <= MaxSize
    /\ UNCHANGED <<contents, held, length, position>>

\* An offset from the position or from the end stays inside the file.
Seek ==
    /\ ret'.call = "seek"
    /\ ret'.whence # "SET" => position' <= length
    /\ ret'.at = position'
    /\ UNCHANGED <<contents, held, length>>

Close == ret'.call = "close" /\ UNCHANGED <<contents, held, length, position>>

Next == /\ ret.call \notin {"close", "undefined"}
        /\ \/ Read \/ Write \/ WriteNothing \/ NoMemory \/ Undefined
           \/ Seek \/ Close
Spec == Init /\ [][Next]_fileVars
=============================================================================
