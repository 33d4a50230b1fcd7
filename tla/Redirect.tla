------------------------------ MODULE Redirect ------------------------------
(***************************************************************************)
(* src/io/redirect.c and src/io/file.c over the descriptors of a test      *)
(* process: the test redirects its standard streams, prints, and compares  *)
(* what it printed with a text or with a mock file (module MockFile).      *)
(*                                                                         *)
(* One thread does all of it, so that a call that waits for input waits    *)
(* for itself.  The comparison is a loop over blocks of Block bytes, one   *)
(* turn a step.                                                            *)
(***************************************************************************)
EXTENDS MockFile, Descriptors, Sequences

CONSTANTS
    Block,      \* the size of the buffers of file.c: 512
    Capacity,   \* the bytes that a pipe holds
    NbFds,      \* the descriptors a process may have
    NbPipes,    \* bound on the redirections of one test
    MaxPrints,  \* bound on what the test prints
    Texts       \* what it prints and compares with

ASSUME RedirectAssumption ==
    /\ Block \in Nat \ {0} /\ Capacity \in Nat \ {0}
    /\ NbFds \in Nat /\ NbFds > 3
    /\ NbPipes \in Nat /\ MaxPrints \in Nat
    /\ Texts \subseteq Seq(Byte)

VARIABLES
    fds,      \* the table of the process
    pipes,    \* the pipes: [data, noblock]
    redir,    \* stdin_redir, stdout_redir, stderr_redir: numbers of the ends
    files,    \* the static FILE of each cr_get_redirected_*
    outbuf,   \* the buffer of stdout (stderr has none)
    prints,   \* how many texts were printed
    tpc,      \* "boot", "idle", in a call, and three ends
    cmp,      \* the comparison under way
    sent,     \* history: written to each stream since it was redirected
    lost,     \* history: the streams that lost bytes to a full pipe
    verdict   \* history: the comparison that returns, and its result

testVars == <<fds, pipes, redir, files, outbuf, prints, tpc, cmp,
              sent, lost, verdict>>
allVars  == <<mockVars, testVars>>

NoFile   == -1   \* the static pointer is NULL
Dangling == -2   \* the file it points to was closed
NoCmp    == [fd |-> CR_STDOUT, how |-> "none"]

TestInit ==
    /\ fds = [n \in 0 .. NbFds - 1 |-> IF n \in StdFd THEN Terminal(n) ELSE Closed]
    /\ pipes = <<>>
    /\ redir = [k \in StdFd |-> <<0, 0>>]
    /\ files = [k \in StdFd |-> NoFile]
    /\ outbuf = <<>> /\ prints = 0
    /\ tpc = "boot" /\ cmp = NoCmp
    /\ sent = [k \in StdFd |-> <<>>] /\ lost = {}
    /\ verdict = NoCmp
RedirectInit == MockInit /\ TestInit

----------------------------------------------------------------------------
(* Writing to a descriptor, reading from one.                              *)

IsWriteEnd(n) == fds[n][1] = "w"
PipeOf(n)     == fds[n][2]
HasReader(p)  == \E n \in DOMAIN fds : fds[n] = ReadEnd(p)
HasWriter(p)  == \E n \in DOMAIN fds : fds[n] = WriteEnd(p)

\* What is left of text in a pipe that holds data already.
fitting(data, text) ==
    SubSeq(text, 1, least(Len(text), Capacity - Len(data)))

\* fflush of the stream on descriptor n: what does not fit is dropped, and a
\* pipe nobody can read kills the process.
Written(n, text) ==
    /\ sent' = IF IsWriteEnd(n) THEN [sent EXCEPT ![n] = @ \o text] ELSE sent
    /\ IF ~IsWriteEnd(n) \/ text = <<>>
       THEN UNCHANGED <<pipes, lost, tpc>>
       ELSE IF ~HasReader(PipeOf(n))
       THEN tpc' = "killed" /\ UNCHANGED <<pipes, lost>>
       ELSE LET kept == fitting(pipes[PipeOf(n)].data, text)
            IN  /\ pipes' = [pipes EXCEPT ![PipeOf(n)].data = @ \o kept]
                /\ lost' = IF kept = text THEN lost ELSE lost \cup {n}
                /\ UNCHANGED tpc

\* fread(buf, 1, Block, f): less than a block only at the end of the data.
block_of(data) == SubSeq(data, 1, least(Len(data), Block))
rest_of(data)  == SubSeq(data, Len(block_of(data)) + 1, Len(data))

\* fread returns: with a block, at the end of the file, or empty-handed.
Returns(p) ==
    \/ Len(pipes[p].data) >= Block
    \/ pipes[p].noblock
    \/ ~HasWriter(p)

----------------------------------------------------------------------------
(* cr_redirect                                                             *)

\* A slip: outputs left blocking, and the input not.
noblock_Swapped(k) == k = CR_STDIN

\* Reading from an output must not wait for the test that writes it.
noblock(k) == k # CR_STDIN

\* fflush(get_std_file(k)): to where the stream went before.
flushed(k) ==
    IF k = CR_STDOUT /\ IsWriteEnd(k)
    THEN [pipes EXCEPT ![PipeOf(k)].data = @ \o fitting(@, outbuf)]
    ELSE pipes

\* The test writes its reference first, in one call, and a stream is redirected
\* again only before its other end was asked for.
Redirectable(k) ==
    /\ Len(pipes) < NbPipes /\ files[k] = NoFile
    /\ mf.cur = mf.size
    /\ \/ ret.call = "open"
       \/ ret.call = "write" /\ ret.count = mf.size

cr_redirect(k) ==
    LET p      == Len(pipes) + 1
        handle == pipe_fds(fds, p)
    IN  /\ ~no_pipe(fds)
        /\ pipes' = Append(flushed(k), [data |-> <<>>, noblock |-> noblock(k)])
        /\ outbuf' = IF k = CR_STDOUT THEN <<>> ELSE outbuf
        /\ redir' = [redir EXCEPT ![k] = handle]
        /\ fds' = pipe_std_redirect(pipe(fds, p), handle, k)
        /\ sent' = [sent EXCEPT ![k] = <<>>]
        /\ lost' = lost \ {k}
        /\ UNCHANGED <<files, prints, cmp, verdict>>

\* cr_redirect_stdin in run_test_child, before anything else.
Boot ==
    /\ tpc = "boot" /\ tpc' = "idle"
    /\ cr_redirect(CR_STDIN)
    /\ UNCHANGED mockVars

RedirectOut(k) ==
    /\ tpc = "idle" /\ Redirectable(k)
    /\ cr_redirect(k)
    /\ UNCHANGED <<mockVars, tpc>>

\* cr_assert_fail: the test is over.
RedirectFails(k) ==
    /\ tpc = "idle" /\ Redirectable(k) /\ no_pipe(fds)
    /\ pipes' = flushed(k)
    /\ outbuf' = IF k = CR_STDOUT THEN <<>> ELSE outbuf
    /\ tpc' = "failed"
    /\ UNCHANGED <<mockVars, fds, redir, files, prints, cmp, sent, lost, verdict>>

----------------------------------------------------------------------------
(* The test prints.                                                        *)

PrintOut(text) ==
    /\ tpc = "idle" /\ prints < MaxPrints
    /\ prints' = prints + 1
    /\ outbuf' = outbuf \o text
    /\ UNCHANGED <<mockVars, fds, pipes, redir, files, tpc, cmp, sent, lost,
                   verdict>>

FlushOut ==
    /\ tpc = "idle" /\ outbuf # <<>>
    /\ outbuf' = <<>>
    /\ Written(CR_STDOUT, outbuf)
    /\ UNCHANGED <<mockVars, fds, redir, files, prints, cmp, verdict>>

PrintErr(text) ==
    /\ tpc = "idle" /\ prints < MaxPrints
    /\ prints' = prints + 1
    /\ Written(CR_STDERR, text)
    /\ UNCHANGED <<mockVars, fds, redir, files, outbuf, cmp, verdict>>

----------------------------------------------------------------------------
(* cr_get_redirected_*, and the input of the test.                         *)

\* The end of the pipe that the process keeps, as a FILE.
cr_get_redirected(k) ==
    IF files[k] = NoFile THEN redir[k][outer_end(k)] ELSE files[k]

\* A test that feeds more than the pipe holds waits for itself: none does here.
FeedStdin(text) ==
    /\ tpc = "idle" /\ prints < MaxPrints /\ files[CR_STDIN] # Dangling
    /\ prints' = prints + 1
    /\ LET n == cr_get_redirected(CR_STDIN)
       IN  /\ fitting(pipes[PipeOf(n)].data, text) = text
           /\ files' = [files EXCEPT ![CR_STDIN] = n]
           /\ pipes' = [pipes EXCEPT ![PipeOf(n)].data = @ \o text]
    /\ sent' = [sent EXCEPT ![CR_STDIN] = @ \o text]
    /\ UNCHANGED <<mockVars, fds, redir, outbuf, tpc, cmp, lost, verdict>>

\* fclose of the FILE of the test, and the code under test reads its input.
ReadStdin ==
    /\ tpc = "idle" /\ files[CR_STDIN] # Dangling
    /\ fds' = close(fds, cr_get_redirected(CR_STDIN))
    /\ files' = [files EXCEPT ![CR_STDIN] = Dangling]
    /\ tpc' = "read"
    /\ UNCHANGED <<mockVars, pipes, redir, outbuf, prints, cmp, sent, lost, verdict>>

\* It reads until the end of the file.
StdinRead ==
    /\ tpc = "read" /\ Returns(PipeOf(CR_STDIN))
    /\ LET p == PipeOf(CR_STDIN)
       IN  /\ pipes' = [pipes EXCEPT ![p].data = <<>>]
           /\ verdict' = [fd |-> CR_STDIN, how |-> "read",
                          got |-> pipes[p].data, want |-> sent[CR_STDIN]]
    /\ sent' = [sent EXCEPT ![CR_STDIN] = <<>>]
    /\ tpc' = "return"
    /\ UNCHANGED <<mockVars, fds, redir, files, outbuf, prints, cmp, lost>>

----------------------------------------------------------------------------
(* cr_stdout_match_str, cr_stderr_match_str, and the same with a file.     *)

Captured(k) == files[k] # Dangling /\ IsWriteEnd(k)

Match(k, c) ==
    /\ tpc = "idle" /\ Captured(k)
    /\ files' = [files EXCEPT ![k] = cr_get_redirected(k)]
    /\ cmp' = c
    /\ tpc' = "compare"
    /\ UNCHANGED <<fds, pipes, redir, outbuf, prints, sent, lost, verdict>>

MatchStr(k, text) ==
    /\ Match(k, [fd |-> k, how |-> "str", want |-> text, rest |-> text,
                 matches |-> TRUE])
    /\ UNCHANGED mockVars

\* fgetpos and rewind.
MatchFile(k) ==
    /\ mpc = "idle"
    /\ Match(k, [fd |-> k, how |-> "file", orig |-> mf.cur, matches |-> FALSE,
                 want |-> [i \in 1 .. mf.size |-> mf.mem[i - 1]]])
    /\ SeekCall(0, "SET")
    /\ UNCHANGED <<mpc, wr>>

source == PipeOf(files[cmp.fd])
input  == pipes[source].data
Consume == pipes' = [pipes EXCEPT ![source].data = rest_of(input)]

\* One turn of the loop of cr_file_match_str.
CompareStr ==
    /\ tpc = "compare" /\ cmp.how = "str" /\ Returns(source)
    /\ Consume
    /\ LET got  == block_of(input)
           same == /\ Len(got) <= Len(cmp.rest)
                   /\ got = SubSeq(cmp.rest, 1, Len(got))
       IN  IF got = <<>> THEN tpc' = "drain" /\ UNCHANGED cmp
           ELSE IF same
           THEN /\ cmp' = [cmp EXCEPT !.rest = SubSeq(@, Len(got) + 1, Len(@))]
                /\ UNCHANGED tpc
           ELSE tpc' = "drain" /\ cmp' = [cmp EXCEPT !.matches = FALSE]
    /\ UNCHANGED <<mockVars, fds, redir, files, outbuf, prints, sent, lost, verdict>>

\* One turn of the loop of cr_file_match_file: a block of each.
CompareFile ==
    /\ tpc = "compare" /\ cmp.how = "file" /\ Returns(source)
    /\ Consume
    /\ LET got  == block_of(input)
           n    == readable(mf, Block)
           data == [i \in 1 .. n |-> read_data(mf, Block)[i - 1]]
       IN  /\ IF got = <<>> THEN UNCHANGED <<mf, ret>> ELSE ReadCall(Block)
           /\ cmp' = IF got = <<>> \/ n = 0 THEN cmp
                     ELSE [cmp EXCEPT !.matches = (got = data)]
           /\ tpc' = IF got = <<>> \/ n = 0 \/ Len(got) # n
                     THEN "drain" ELSE "compare"
    /\ UNCHANGED <<mpc, wr, fds, redir, files, outbuf, prints, sent, lost,
                   verdict>>

\* A slip: a string that goes on after the file accepted.
result_Prefix(c) == c.matches

\* What the comparison returns.
result(c) == c.matches /\ (c.how = "str" => c.rest = <<>>)

\* What is left is read, the position of the reference restored, and the file
\* closed: its static pointer stays.
Drain ==
    /\ tpc = "drain" /\ Returns(source)
    /\ pipes' = [pipes EXCEPT ![source].data = <<>>]
    /\ IF cmp.how = "file" THEN SeekCall(cmp.orig, "SET") ELSE UNCHANGED <<mf, ret>>
    /\ verdict' = [fd |-> cmp.fd, how |-> cmp.how, want |-> cmp.want,
                   got |-> sent[cmp.fd], whole |-> cmp.fd \notin lost,
                   result |-> result(cmp)]
    /\ fds' = close(fds, files[cmp.fd])
    /\ files' = [files EXCEPT ![cmp.fd] = Dangling]
    /\ cmp' = NoCmp
    /\ sent' = [sent EXCEPT ![cmp.fd] = <<>>]
    /\ tpc' = "return"
    /\ UNCHANGED <<mpc, wr, redir, outbuf, prints, lost>>

Return ==
    /\ tpc = "return" /\ tpc' = "idle"
    /\ verdict' = NoCmp
    /\ UNCHANGED <<mockVars, fds, pipes, redir, files, outbuf, prints, cmp, sent,
                   lost>>

----------------------------------------------------------------------------
(* The test uses its mock file before it redirects an output.              *)
Preparing == tpc = "idle" /\ Len(pipes) = 1 /\ prints = 0

\* The end of the process flushes what is left.
Exit ==
    /\ tpc = "idle"
    /\ IF IsWriteEnd(CR_STDOUT) /\ outbuf # <<>> /\ ~HasReader(PipeOf(CR_STDOUT))
       THEN tpc' = "killed" ELSE tpc' = "exited"
    /\ UNCHANGED <<mockVars, fds, pipes, redir, files, outbuf, prints, cmp,
                   sent, lost, verdict>>
Calls == {"compare", "drain", "read"}
Sleeps == tpc \in Calls /\ UNCHANGED allVars
Over   == /\ tpc \in {"failed", "killed", "exited"} \/ mpc = "outside"
          /\ UNCHANGED allVars

TestStep ==
    \/ Boot
    \/ \E k \in {CR_STDOUT, CR_STDERR} : RedirectOut(k) \/ RedirectFails(k)
    \/ \E text \in Texts \ {<<>>} :
          PrintOut(text) \/ PrintErr(text) \/ FeedStdin(text)
    \/ FlushOut \/ ReadStdin
    \/ \E k \in {CR_STDOUT, CR_STDERR} :
          MatchFile(k) \/ \E text \in Texts : MatchStr(k, text)
    \/ Exit
Waiting == StdinRead \/ CompareStr \/ CompareFile \/ Drain \/ Return

RedirectNext ==
    \/ TestStep /\ mpc \in {"idle", "closed"}
    \/ Waiting \/ Sleeps \/ Over
    \/ Preparing /\ MockNext /\ UNCHANGED testVars
RedirectSpec == RedirectInit /\ [][RedirectNext]_allVars /\ WF_allVars(Waiting)

----------------------------------------------------------------------------
Redirected(k) == redir[k] # <<0, 0>>

(* A redirected stream is one end of its pipe and nothing else is that     *)
(* end, so that closing it is the end of the file for the other; and the   *)
(* number that the process keeps still is the other end, although numbers  *)
(* are closed and given again by every redirection (file_std_redirect).    *)
EndsMatch ==
    \A k \in StdFd : Redirected(k) =>
        /\ fds[k] = IF k = CR_STDIN THEN ReadEnd(PipeOf(k)) ELSE WriteEnd(PipeOf(k))
        /\ \A n \in DOMAIN fds : n # k => fds[n] # fds[k]
        /\ files[k] # Dangling =>
              /\ files[k] \in {NoFile, redir[k][outer_end(k)]}
              /\ fds[redir[k][outer_end(k)]] =
                    IF k = CR_STDIN THEN WriteEnd(PipeOf(k)) ELSE ReadEnd(PipeOf(k))

(* What a stream was sent since it was last redirected waits in its pipe,  *)
(* in order, mixed with nothing of the other streams, and whole unless the *)
(* pipe was full (an output does not block).                               *)
OutputKept ==
    \A k \in StdFd :
        Redirected(k) /\ files[k] # Dangling /\ ~(tpc # "idle" /\ cmp.fd = k) =>
            LET data == pipes[PipeOf(k)].data
            IN  /\ fds[k] # Closed
                /\ data = SubSeq(sent[k], 1, Len(data))
                /\ k \notin lost => data = sent[k]

(* The verdict of a comparison is the truth, however the text and the      *)
(* output fall into blocks (io/file.c): exact with a text; with a file it   *)
(* accepts every output that equals it and is not empty, and rejects every  *)
(* other that is shorter than a block. The input a test feeds is read to    *)
(* its last byte.                                                           *)
ReadVerdict == verdict.how = "read" => verdict.got = verdict.want
StrVerdict ==
    verdict.how = "str" /\ verdict.whole =>
        (verdict.result <=> verdict.got = verdict.want)
FileVerdict ==
    verdict.how = "file" /\ verdict.whole =>
        /\ verdict.got = verdict.want /\ verdict.got # <<>> => verdict.result
        /\ verdict.result /\ Len(verdict.got) < Block /\ Len(verdict.want) < Block
              => verdict.got = verdict.want
VerdictTrue == ReadVerdict /\ StrVerdict /\ FileVerdict

(* A comparison returns, although the process that reads its output also   *)
(* holds the end that writes it, and so does reading a closed input.       *)
CallsReturn == tpc \in Calls ~> tpc = "idle"
=============================================================================
