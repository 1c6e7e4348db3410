----------------------------- MODULE LineStream -----------------------------
(***************************************************************************)
(* One direction of the socket between NetworkClient and Session, below    *)
(* the queues of module Protocol.  Both ends send a line by starting an    *)
(* async_write without waiting for the previous one, and read up to the    *)
(* next newline.                                                           *)
(*                                                                         *)
(* async_write writes in pieces: at most 64 KiB, and no more than the      *)
(* socket has room for.  The pieces that wait for the socket are served in *)
(* order, and the completion handler of one starts the next one of its     *)
(* line, behind whatever was started meanwhile.  Handlers run one at a     *)
(* time on the thread of the io_context; the window's thread starts writes *)
(* at any moment.                                                          *)
(*                                                                         *)
(* A unit of a line stands for the bytes no write divides; the last one    *)
(* ends with the newline.  Abstracted: a line with a piece missing, or     *)
(* with one of another line inside, is not JSON (the objects that are sent *)
(* start with a brace and a quote and end with a brace).                   *)
(***************************************************************************)
EXTENDS Naturals, Sequences

CONSTANTS
    Length,   \* lengths of lines, in units
    MaxSent   \* bound: lines sent

ASSUME StreamAssumption == Length \subseteq Nat \ {0} /\ MaxSent \in Nat

VARIABLES
    sent,     \* sent[i]: the length of the i-th line sent
    written,  \* written[i]: how much of it is written
    ops,      \* lines with a piece waiting for the socket
    handlers, \* lines with a piece written whose handler has not run
    wire,     \* <<line, unit>>: written and not read
    up,       \* the writer is there
    torn,     \* lines with another one's piece inside, and those pieces' lines
    got       \* the lines parsed by the reader

vars == <<sent, written, ops, handlers, wire, up, torn, got>>

Line == DOMAIN sent
EndsLine(unit) == unit[2] = sent[unit[1]]

\* Where each line is, and what is on the wire.
TypeOK ==
    /\ sent \in Seq(Length)
    /\ written \in [Line -> Nat]
    /\ {ops, handlers, got} \subseteq Seq(Line)
    /\ \A i \in Line : written[i] <= sent[i]
    /\ wire \in Seq(Line \X Nat)
    /\ \A m \in DOMAIN wire : wire[m][2] \in 1 .. sent[wire[m][1]]
    /\ torn \subseteq Line
    /\ up \in BOOLEAN

Init ==
    /\ sent = <<>> /\ written = <<>>
    /\ ops = <<>> /\ handlers = <<>>
    /\ wire = <<>> /\ got = <<>>
    /\ torn = {}
    /\ up = TRUE

-----------------------------------------------------------------------------
\* Mutant: hands async_write the buffer of the line before.
send_oldBuffer(n) ==
    /\ up /\ Len(sent) < MaxSent
    /\ sent' = Append(sent, n)
    /\ written' = Append(written, 0)
    /\ ops' = Append(ops, Len(sent))
    /\ UNCHANGED <<handlers, wire, up, torn, got>>

send(n) ==
    /\ up /\ Len(sent) < MaxSent
    /\ sent' = Append(sent, n)
    /\ written' = Append(written, 0)
    /\ ops' = Append(ops, Len(sent) + 1)
    /\ UNCHANGED <<handlers, wire, up, torn, got>>

\* The lines that are spoiled when a piece of line i follows on the wire.
Tears(i) ==
    IF wire = <<>> THEN {}
    ELSE LET before == wire[Len(wire)] IN
         IF EndsLine(before) \/ before[1] = i THEN {} ELSE {i, before[1]}

\* The socket takes a piece of the line that has waited longest.
WriteSome ==
    /\ up /\ ops # <<>>
    /\ LET i == Head(ops) IN
       \E n \in written[i] + 1 .. sent[i] :
          /\ written' = [written EXCEPT ![i] = n]
          /\ wire' = wire \o [k \in 1 .. n - written[i] |->
                                <<i, written[i] + k>>]
          /\ torn' = torn \cup Tears(i)
          /\ handlers' = Append(handlers, i)
    /\ ops' = Tail(ops)
    /\ UNCHANGED <<sent, up, got>>

\* The handler of that write goes on with the line, or is done with it.
Continue ==
    /\ up /\ handlers # <<>>
    /\ LET i == Head(handlers) IN
       ops' = IF written[i] < sent[i] THEN Append(ops, i) ELSE ops
    /\ handlers' = Tail(handlers)
    /\ UNCHANGED <<sent, written, wire, up, torn, got>>

Newlines == {k \in DOMAIN wire : EndsLine(wire[k])}

Whole(units) ==
    LET i == units[1][1] IN units = [k \in 1 .. sent[i] |-> <<i, k>>]

\* Mutant: reads into a buffer of its own, and drops what it got too much.
read_next_freshBuffer ==
    \E n \in Newlines :
       /\ \A k \in Newlines : n <= k
       /\ LET line == SubSeq(wire, 1, n) IN
          got' = IF Whole(line) THEN Append(got, line[1][1]) ELSE got
       /\ wire' = <<>>
       /\ UNCHANGED <<sent, written, ops, handlers, up, torn>>

\* Mutant: reads no more after a line that is not JSON.
read_next_stopsAtGarbage ==
    \E n \in Newlines :
       /\ \A k \in Newlines : n <= k
       /\ LET line == SubSeq(wire, 1, n) IN
          Whole(line) /\ got' = Append(got, line[1][1])
       /\ wire' = SubSeq(wire, n + 1, Len(wire))
       /\ UNCHANGED <<sent, written, ops, handlers, up, torn>>

\* The reader takes everything up to the next newline and parses it, or
\* prints "bad json" and goes on.
read_next ==
    \E n \in Newlines :
       /\ \A k \in Newlines : n <= k
       /\ LET line == SubSeq(wire, 1, n) IN
          got' = IF Whole(line) THEN Append(got, line[1][1]) ELSE got
       /\ wire' = SubSeq(wire, n + 1, Len(wire))
       /\ UNCHANGED <<sent, written, ops, handlers, up, torn>>

\* The writer is closed or dies: its io_context is stopped, and TCP may not
\* carry over all that was written.  What is left without a newline is never
\* handled: async_read_until ends with an error.
HangUp ==
    /\ up
    /\ up' = FALSE
    /\ ops' = <<>> /\ handlers' = <<>>
    /\ \E n \in 0 .. Len(wire) : wire' = SubSeq(wire, 1, n)
    /\ UNCHANGED <<sent, written, torn, got>>

Next ==
    \/ \E n \in Length : send(n)
    \/ WriteSome \/ Continue \/ read_next \/ HangUp

Spec == Init /\ [][Next]_vars

\* The io_context of each end keeps running, and the reader's makes room for
\* the writer's.
Fairness == WF_vars(WriteSome) /\ WF_vars(Continue) /\ WF_vars(read_next)

FairSpec == Spec /\ Fairness

-----------------------------------------------------------------------------
(***************************************************************************)
(* The socket is the queue of module Protocol, as long as no line is long  *)
(* enough for two writes to meet: lines arrive in order and once, the      *)
(* reader is back in step after garbage, and a line is lost only together  *)
(* with one that was under way at the same time (server.cpp:24-29 and      *)
(* 113-134, NetworkClient.cpp:27-32 and 120-136).                          *)
(***************************************************************************)
Channel == INSTANCE LineChannel WITH lost <- torn

IsChannel == Channel!ChannelSpec

(***************************************************************************)
(* Why that holds: every line's first piece is written in the order of     *)
(* sending, a line nobody wrote into is in one piece on the wire, behind   *)
(* all the earlier ones, and one that somebody wrote into never looks      *)
(* whole again (server.cpp:24-29, NetworkClient.cpp:27-32: the handler of  *)
(* one piece starts the next, on a socket that serves them in order).      *)
(***************************************************************************)
OnWire(i, k) == \E m \in DOMAIN wire : wire[m] = <<i, k>>

\* The unit at m is where its line's unit is expected: after the one before
\* it, or at the beginning of what the reader takes for a line.
Follows(m) ==
    IF wire[m][2] = 1
    THEN m = 1 \/ EndsLine(wire[m - 1])
    ELSE m > 1 /\ wire[m - 1] = <<wire[m][1], wire[m][2] - 1>>

Last == wire[Len(wire)]

WrittenOnce ==
    /\ \A m \in DOMAIN wire : wire[m][2] <= written[wire[m][1]]
    /\ \A m, n \in DOMAIN wire : wire[m] = wire[n] => m = n
    /\ up /\ wire # <<>> => Last[2] = written[Last[1]]

StartedInOrder ==
    /\ \A j \in Line : up /\ written[j] = 0
          => \E a \in DOMAIN ops : ops[a] = j
    /\ \A b \in DOMAIN ops : \A j \in Line :
          j < ops[b] /\ written[j] = 0 => \E a \in 1 .. b - 1 : ops[a] = j

Unbroken ==
    /\ \A m \in DOMAIN wire : wire[m][1] \notin torn => Follows(m)
    /\ \A i \in Line \ torn : up /\ 0 < written[i] /\ written[i] < sent[i]
          => wire # <<>> /\ Last = <<i, written[i]>>

\* i has a unit in the wrong place, or will not get all its units.
Spoiled(i) ==
    \/ \E m \in DOMAIN wire : wire[m][1] = i /\ ~Follows(m)
    \/ written[i] < sent[i] /\ (up => wire # <<>> /\ Last[1] # i)

Broken ==
    \A i \in torn :
        /\ written[i] > 0
        /\ (\A k \in 1 .. written[i] : OnWire(i, k)) => Spoiled(i)

ReadInOrder ==
    /\ \A i \in Channel!Arrived : /\ written[i] = sent[i]
                                  /\ \A m \in DOMAIN wire : wire[m][1] # i
    /\ \A j \in Line \ (torn \cup Channel!Arrived) :
          /\ up /\ written[j] = sent[j] => OnWire(j, sent[j])
          /\ \A m \in DOMAIN wire : j < wire[m][1]
                => \E l \in 1 .. m - 1 : wire[l] = <<j, sent[j]>>

PiecesInOrder ==
    WrittenOnce /\ StartedInOrder /\ Unbroken /\ Broken /\ ReadInOrder

(***************************************************************************)
(* A line nobody writes into arrives, if its writer lives.                 *)
(***************************************************************************)
LinesArrive ==
    \A i \in 1 .. MaxSent :
        i \in Line ~> i \in Channel!Arrived \cup torn \/ ~up
=============================================================================
