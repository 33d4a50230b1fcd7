---------------------------- MODULE Descriptors ----------------------------
(***************************************************************************)
(* The table of file descriptors of one process, and what src/compat/      *)
(* pipe.c does to it.  A table is a function from numbers to what is open  *)
(* there; the system calls are modelled as the standard describes them: a  *)
(* new descriptor is the lowest free number.                               *)
(***************************************************************************)
EXTENDS Integers, FiniteSets, FiniteSetsExt

Closed      == <<"closed">>
Terminal(n) == <<"terminal", n>>
Null        == <<"null">>
ReadEnd(p)  == <<"r", p>>
WriteEnd(p) == <<"w", p>>

\* enum criterion_std_fd
CR_STDIN  == 0
CR_STDOUT == 1
CR_STDERR == 2
StdFd == {CR_STDIN, CR_STDOUT, CR_STDERR}

----------------------------------------------------------------------------
(* The system calls.                                                       *)

free(fds)   == {n \in DOMAIN fds : fds[n] = Closed}
lowest(fds) == Min(free(fds))

close(fds, n)     == [fds EXCEPT ![n] = Closed]
dup2(fds, m, n)   == IF fds[m] = Closed THEN fds ELSE [fds EXCEPT ![n] = fds[m]]
open(fds, what)   == [fds EXCEPT ![lowest(fds)] = what]
dup(fds, n)       == open(fds, fds[n])

\* pipe(2): the two ends of pipe p, and where they are.
pipe(fds, p)     == open(open(fds, ReadEnd(p)), WriteEnd(p))
pipe_fds(fds, p) == LET r == lowest(fds)
                    IN  <<r, lowest(open(fds, ReadEnd(p)))>>
\* EMFILE
no_pipe(fds)     == Cardinality(free(fds)) < 2

----------------------------------------------------------------------------
(* src/compat/pipe.c                                                       *)

\* A slip: the old number closed first.
file_std_redirect_Early(fds, to, fd) == dup2(close(close(fds, fd), to), to, fd)
\* A slip: the old number kept.
file_std_redirect_Kept(fds, to, fd) == dup2(close(fds, fd), to, fd)

file_std_redirect(fds, to, fd) == close(dup2(close(fds, fd), to, fd), to)

\* Which end of its pipe takes the place of a standard stream.
inner_end(fd) == IF fd = CR_STDIN THEN 1 ELSE 2
outer_end(fd) == IF fd = CR_STDIN THEN 2 ELSE 1

pipe_std_redirect(fds, handle, fd) ==
    file_std_redirect(fds, handle[inner_end(fd)], fd)

\* The first two steps of cri_silence_outputs: where the originals are kept.
orig_fds(fds) == LET out == lowest(fds)
                 IN  <<out, lowest(dup(fds, CR_STDOUT))>>

cri_silence_outputs(fds) ==
    LET saved  == dup(dup(fds, CR_STDOUT), CR_STDERR)
        silent(f, fd) == file_std_redirect(open(f, Null), lowest(f), fd)
    IN  silent(silent(saved, CR_STDOUT), CR_STDERR)

\* A slip: the copies are taken for the other stream.
cri_restore_outputs_Swapped(fds, orig) ==
    close(dup2(close(dup2(fds, orig[2], CR_STDOUT), orig[2]),
               orig[1], CR_STDERR), orig[1])

cri_restore_outputs(fds, orig) ==
    close(dup2(close(dup2(fds, orig[1], CR_STDOUT), orig[1]),
               orig[2], CR_STDERR), orig[2])
=============================================================================
