-------------------------- MODULE LineStreamProofs --------------------------
(***************************************************************************)
(* Proofs about the socket (module LineStream), for any number of lines of *)
(* any lengths: where the pieces of the lines are, and from that, that two *)
(* ends see a queue of lines.                                              *)
(***************************************************************************)
EXTENDS LineStream, LeastNumber, SequenceTheorems, TLAPS

-----------------------------------------------------------------------------
\* The parts of the state.

\* What a unit on the wire is.
LEMMA Units ==
    ASSUME StreamAssumption, TypeOK
    PROVE  /\ Len(wire) \in Nat /\ DOMAIN wire = 1 .. Len(wire)
           /\ Len(sent) \in Nat /\ Line = 1 .. Len(sent)
           /\ \A i \in Line : sent[i] \in Length /\ sent[i] \in Nat \ {0}
           /\ \A m \in DOMAIN wire :
                 /\ wire[m][1] \in Line /\ wire[m][2] \in Nat
                 /\ wire[m][2] \in 1 .. sent[wire[m][1]]
                 /\ wire[m] = <<wire[m][1], wire[m][2]>>
<1>1. Len(wire) \in Nat /\ DOMAIN wire = 1 .. Len(wire)
  BY DEF TypeOK
<1>2. Len(sent) \in Nat /\ Line = 1 .. Len(sent)
  BY DEF TypeOK, Line
<1>3. \A i \in Line : sent[i] \in Length /\ sent[i] \in Nat \ {0}
  <2>1. sent \in Seq(Length) /\ Length \subseteq Nat \ {0}
    BY DEF TypeOK, StreamAssumption
  <2> QED
    BY <1>2, <2>1, ElementOfSeq
<1>4. ASSUME NEW m \in DOMAIN wire
      PROVE  /\ wire[m][1] \in Line /\ wire[m][2] \in Nat
             /\ wire[m][2] \in 1 .. sent[wire[m][1]]
             /\ wire[m] = <<wire[m][1], wire[m][2]>>
  <2>1. wire[m] \in Line \X Nat
    BY <1>1 DEF TypeOK
  <2> QED
    BY <2>1 DEF TypeOK
<1> QED
  BY <1>1, <1>2, <1>3, <1>4

\* Line i goes on the wire from its unit behind written[i] up to n.
Piece(i, n) ==
    /\ up /\ ops # <<>> /\ i = Head(ops) /\ ops' = Tail(ops)
    /\ written[i] \in Nat /\ written[i] < n /\ n <= sent[i]
    /\ sent' = sent /\ up' = up /\ got' = got
    /\ written' = [written EXCEPT ![i] = n]
    /\ torn' = torn \cup Tears(i)
    /\ handlers' = Append(handlers, i)
    /\ wire' \in Seq(Line \X Nat) /\ DOMAIN wire' = 1 .. Len(wire')
    /\ Len(wire') = Len(wire) + (n - written[i])
    /\ \A m \in 1 .. Len(wire) : wire'[m] = wire[m]
    /\ \A m \in Len(wire) + 1 .. Len(wire') :
          wire'[m] = <<i, written[i] + (m - Len(wire))>>

\* What the socket takes: a piece of the line that has waited longest.
LEMMA PieceTaken ==
    ASSUME StreamAssumption, TypeOK, WriteSome
    PROVE  \E i \in Line, n \in Nat : Piece(i, n)
<1> DEFINE i == Head(ops)
<1>1. i = Head(ops) /\ i \in Line /\ written[i] \in Nat /\ sent[i] \in Nat
  <2>1. ops \in Seq(Line) /\ ops # <<>> /\ written \in [Line -> Nat]
    BY DEF WriteSome, TypeOK
  <2>2. i \in Line
    BY <2>1
  <2> HIDE DEF i
  <2>3. written[i] \in Nat /\ sent[i] \in Nat
    BY <2>1, <2>2, Units
  <2> QED
    BY <2>2, <2>3 DEF i
<1>2. PICK n \in written[i] + 1 .. sent[i] :
          /\ written' = [written EXCEPT ![i] = n]
          /\ wire' = wire \o [k \in 1 .. n - written[i] |->
                                <<i, written[i] + k>>]
          /\ torn' = torn \cup Tears(i)
          /\ handlers' = Append(handlers, i)
  BY Zenon DEF WriteSome
<1> HIDE DEF i
<1> DEFINE piece == [k \in 1 .. n - written[i] |-> <<i, written[i] + k>>]
<1>3. n \in Nat /\ n - written[i] \in Nat /\ written[i] < n /\ n <= sent[i]
  BY <1>1, <1>2
<1>4. piece \in Seq(Line \X Nat) /\ Len(piece) = n - written[i]
  <2>1. i \in Line /\ written[i] \in Nat /\ n - written[i] \in Nat
    BY <1>1, <1>3
  <2>2. piece \in [1 .. n - written[i] -> Line \X Nat]
    BY <2>1
  <2> HIDE DEF piece
  <2>3. piece \in Seq(Line \X Nat)
    BY <2>1, <2>2, SeqDef
  <2> QED
    BY <2>1, <2>2, <2>3
<1>5. wire \in Seq(Line \X Nat) /\ wire' = wire \o piece
  <2>1. wire' = wire \o piece
    BY <1>2
  <2> HIDE DEF piece
  <2> QED
    BY <2>1 DEF TypeOK
<1>6. /\ wire' \in Seq(Line \X Nat)
      /\ Len(wire') = Len(wire) + (n - written[i])
      /\ \A m \in 1 .. Len(wire) + (n - written[i]) :
            wire'[m] = IF m <= Len(wire) THEN wire[m]
                       ELSE piece[m - Len(wire)]
  <2> HIDE DEF piece
  <2> QED
    BY <1>4, <1>5, ConcatProperties
<1> DEFINE d == n - written[i]
<1>w. Len(wire) \in Nat /\ d \in Nat
  BY <1>3, Units
<1>7. \A m \in 1 .. Len(wire) : wire'[m] = wire[m]
  <2>1. \A m \in 1 .. Len(wire) + d :
           wire'[m] = IF m <= Len(wire) THEN wire[m] ELSE piece[m - Len(wire)]
    BY <1>6
  <2> HIDE DEF piece, d
  <2> QED
    BY <1>w, <2>1
<1>8. \A m \in Len(wire) + 1 .. Len(wire') :
         wire'[m] = <<i, written[i] + (m - Len(wire))>>
  <2> SUFFICES ASSUME NEW m \in Len(wire) + 1 .. Len(wire')
               PROVE  wire'[m] = <<i, written[i] + (m - Len(wire))>>
    OBVIOUS
  <2>1. Len(wire') = Len(wire) + d
    BY <1>6
  <2>2. m \in 1 .. Len(wire) + d /\ ~(m <= Len(wire)) /\ m - Len(wire) \in 1 .. d
    <3> HIDE DEF d
    <3> QED
      BY <1>w, <2>1
  <2>3. wire'[m] = piece[m - Len(wire)]
    BY <1>6, <2>2
  <2> QED
    BY <2>2, <2>3
<1>9. up /\ ops # <<>> /\ ops' = Tail(ops) /\ sent' = sent /\ up' = up /\ got' = got
  BY DEF WriteSome
<1>10. DOMAIN wire' = 1 .. Len(wire')
  BY <1>6
<1> QED
  BY <1>1, <1>2, <1>3, <1>6, <1>7, <1>8, <1>9, <1>10 DEF Piece

\* The first n units on the wire are all of one line, in order.
IsWhole(n) ==
    /\ n = sent[wire[1][1]]
    /\ \A k \in 1 .. n : wire[k] = <<wire[1][1], k>>

\* The reader takes n units, and n is the first newline.
ReadTo(n) ==
    /\ EndsLine(wire[n]) /\ \A k \in 1 .. n - 1 : ~EndsLine(wire[k])
    /\ UNCHANGED <<sent, written, ops, handlers, up, torn>>
    /\ got' = IF IsWhole(n) THEN Append(got, wire[1][1]) ELSE got
    /\ wire' \in Seq(Line \X Nat) /\ DOMAIN wire' = 1 .. Len(wire')
    /\ Len(wire') = Len(wire) - n
    /\ \A m \in 1 .. Len(wire') : wire'[m] = wire[m + n]

\* What the reader takes: the units up to the first newline.
LEMMA LineTaken ==
    ASSUME StreamAssumption, TypeOK, read_next
    PROVE  \E n \in DOMAIN wire : ReadTo(n)
<1>1. PICK n \in Newlines :
       /\ \A k \in Newlines : n <= k
       /\ LET line == SubSeq(wire, 1, n) IN
          got' = IF Whole(line) THEN Append(got, line[1][1]) ELSE got
       /\ wire' = SubSeq(wire, n + 1, Len(wire))
       /\ UNCHANGED <<sent, written, ops, handlers, up, torn>>
  BY DEF read_next
<1>w. /\ Len(wire) \in Nat /\ DOMAIN wire = 1 .. Len(wire)
      /\ wire \in Seq(Line \X Nat)
      /\ \A m \in 1 .. Len(wire) : wire[m] \in Line \X Nat
  BY DEF TypeOK
<1>2. n \in DOMAIN wire /\ n \in 1 .. Len(wire) /\ n \in Nat /\ EndsLine(wire[n])
  BY <1>w DEF Newlines
<1>3. \A k \in 1 .. n - 1 : ~EndsLine(wire[k])
  <2> SUFFICES ASSUME NEW k \in 1 .. n - 1, EndsLine(wire[k]) PROVE FALSE
    OBVIOUS
  <2>1. k \in DOMAIN wire /\ ~(n <= k)
    BY <1>2, <1>w
  <2> QED
    BY <1>1, <2>1 DEF Newlines
<1> DEFINE line == SubSeq(wire, 1, n)
<1>4. line \in Seq(Line \X Nat) /\ Len(line) = n /\ \A k \in 1 .. n : line[k] = wire[k]
  <2>1. \A k \in 1 .. n : wire[k] \in Line \X Nat
    BY <1>2, <1>w
  <2>2. /\ SubSeq(wire, 1, n) \in Seq(Line \X Nat)
        /\ Len(SubSeq(wire, 1, n)) = IF 1 <= n THEN n - 1 + 1 ELSE 0
        /\ \A k \in 1 .. n - 1 + 1 : SubSeq(wire, 1, n)[k] = wire[1 + k - 1]
    BY <1>2, <2>1, SubSeqProperties
  <2>3. 1 <= n /\ n - 1 + 1 = n /\ \A k \in 1 .. n : 1 + k - 1 = k
    BY <1>2
  <2> QED
    BY <2>2, <2>3
<1>5. Whole(line) <=> /\ n = sent[wire[1][1]]
                      /\ \A k \in 1 .. n : wire[k] = <<wire[1][1], k>>
  <2> DEFINE i == wire[1][1]
  <2>1. i \in Line /\ sent[i] \in Nat /\ line[1][1] = i
    BY <1>2, <1>4, Units, SMTT(15)
  <2>2. Whole(line) <=> line = [k \in 1 .. sent[i] |-> <<i, k>>]
    BY <2>1 DEF Whole
  <2>3. DOMAIN line = 1 .. n
    BY <1>4
  <2>4. ASSUME Whole(line)
        PROVE  n = sent[i] /\ \A k \in 1 .. n : wire[k] = <<i, k>>
    <3>1. 1 .. n = 1 .. sent[i]
      BY <2>2, <2>3, <2>4
    <3>2. n = sent[i]
      BY <3>1, <2>1, <1>2, Units
    <3> QED
      BY <2>2, <2>4, <3>2, <1>4
  <2>5. ASSUME n = sent[i], \A k \in 1 .. n : wire[k] = <<i, k>>
        PROVE  Whole(line)
    BY <2>2, <2>3, <2>5, <1>4
  <2> QED
    BY <2>4, <2>5
<1>6. /\ wire' \in Seq(Line \X Nat)
      /\ Len(wire') = Len(wire) - n
      /\ \A m \in 1 .. Len(wire') : wire'[m] = wire[m + n]
  <2>1. \A m \in n + 1 .. Len(wire) : wire[m] \in Line \X Nat
    BY <1>2, <1>w
  <2>2. /\ SubSeq(wire, n + 1, Len(wire)) \in Seq(Line \X Nat)
        /\ Len(SubSeq(wire, n + 1, Len(wire))) =
              IF n + 1 <= Len(wire) THEN Len(wire) - (n + 1) + 1 ELSE 0
        /\ \A m \in 1 .. Len(wire) - (n + 1) + 1 :
              SubSeq(wire, n + 1, Len(wire))[m] = wire[(n + 1) + m - 1]
    <3>1. n + 1 \in Int /\ Len(wire) \in Int
      BY <1>2, <1>w
    <3> QED
      BY <2>1, <3>1, SubSeqProperties
  <2>3. Len(wire') = Len(wire) - n
    BY <1>1, <1>2, <1>w, <2>2
  <2>4. ASSUME NEW m \in 1 .. Len(wire') PROVE wire'[m] = wire[m + n]
    <3>1. m \in 1 .. Len(wire) - (n + 1) + 1 /\ (n + 1) + m - 1 = m + n
      BY <1>2, <1>w, <2>3
    <3> QED
      BY <1>1, <2>2, <3>1
  <2> QED
    BY <1>1, <2>2, <2>3, <2>4
<1>7. got' = IF Whole(line) THEN Append(got, wire[1][1]) ELSE got
  BY <1>1, <1>2, <1>4
<1>8. DOMAIN wire' = 1 .. Len(wire')
  BY <1>6
<1> QED
  BY <1>1, <1>2, <1>3, <1>5, <1>6, <1>7, <1>8 DEF ReadTo, IsWhole

\* What is left of a prefix of the wire.
LEMMA WireCut ==
    ASSUME StreamAssumption, TypeOK, HangUp
    PROVE  \E n \in 0 .. Len(wire) :
              /\ wire' \in Seq(Line \X Nat) /\ DOMAIN wire' = 1 .. n
              /\ Len(wire') = n
              /\ \A m \in 1 .. n : wire'[m] = wire[m]
<1>1. PICK n \in 0 .. Len(wire) : wire' = SubSeq(wire, 1, n)
  BY DEF HangUp
<1>2. Len(wire) \in Nat /\ \A k \in 1 .. Len(wire) : wire[k] \in Line \X Nat
  BY DEF TypeOK
<1>3. \A k \in 1 .. n : wire[k] \in Line \X Nat
  BY <1>1, <1>2
<1>4. /\ SubSeq(wire, 1, n) \in Seq(Line \X Nat)
      /\ Len(SubSeq(wire, 1, n)) = IF 1 <= n THEN n - 1 + 1 ELSE 0
      /\ \A k \in 1 .. n - 1 + 1 : SubSeq(wire, 1, n)[k] = wire[1 + k - 1]
  BY <1>1, <1>2, <1>3, SubSeqProperties
<1>5. n \in Nat /\ Len(wire') = n /\ \A m \in 1 .. n : wire'[m] = wire[m]
  BY <1>1, <1>2, <1>4
<1> QED
  BY <1>1, <1>4, <1>5

-----------------------------------------------------------------------------
\* Places on the wire.

\* A place behind a piece is one before it or of it; the last one is its end.
LEMMA PiecePlaces ==
    ASSUME StreamAssumption, TypeOK, NEW i \in Line, NEW n \in Nat, Piece(i, n)
    PROVE  /\ \A m \in DOMAIN wire' :
                 \/ m \in DOMAIN wire /\ wire'[m] = wire[m]
                 \/ /\ m \notin DOMAIN wire
                    /\ wire'[m] = <<i, written[i] + (m - Len(wire))>>
                    /\ wire'[m][1] = i
                    /\ wire'[m][2] = written[i] + (m - Len(wire))
                    /\ wire'[m][2] \in written[i] + 1 .. n
           /\ \A m \in DOMAIN wire : m \in DOMAIN wire' /\ wire'[m] = wire[m]
           /\ Len(wire') \in DOMAIN wire' /\ wire' # <<>> /\ Last' = <<i, n>>
<1>1. Len(wire) \in Nat /\ DOMAIN wire = 1 .. Len(wire)
  BY DEF TypeOK
<1>2. /\ written[i] \in Nat /\ written[i] < n
      /\ Len(wire') = Len(wire) + (n - written[i])
      /\ DOMAIN wire' = 1 .. Len(wire')
  BY DEF Piece
<1>3. \A m \in 1 .. Len(wire) : wire'[m] = wire[m]
  BY DEF Piece
<1>4. \A m \in Len(wire) + 1 .. Len(wire') :
         wire'[m] = <<i, written[i] + (m - Len(wire))>>
  BY DEF Piece
<1>5. ASSUME NEW m \in DOMAIN wire', m \notin DOMAIN wire
      PROVE  m \in Len(wire) + 1 .. Len(wire')
             /\ written[i] + (m - Len(wire)) \in written[i] + 1 .. n
  <2>1. m \in 1 .. Len(wire') /\ ~(m \in 1 .. Len(wire))
    BY <1>1, <1>2, <1>5
  <2> QED
    BY <1>1, <1>2, <2>1
<1>6. \A m \in DOMAIN wire' :
         \/ m \in DOMAIN wire /\ wire'[m] = wire[m]
         \/ /\ m \notin DOMAIN wire
            /\ wire'[m] = <<i, written[i] + (m - Len(wire))>>
            /\ wire'[m][1] = i
            /\ wire'[m][2] = written[i] + (m - Len(wire))
            /\ wire'[m][2] \in written[i] + 1 .. n
  <2> SUFFICES ASSUME NEW m \in DOMAIN wire', m \notin DOMAIN wire
               PROVE  wire'[m] = <<i, written[i] + (m - Len(wire))>>
    BY <1>1, <1>3, <1>5
  <2> QED
    BY <1>4, <1>5
<1>7. Len(wire) <= Len(wire') /\ Len(wire') \in Nat
  BY <1>1, <1>2
<1>8. \A m \in DOMAIN wire : m \in DOMAIN wire' /\ wire'[m] = wire[m]
  BY <1>1, <1>2, <1>3, <1>7
<1>9. /\ Len(wire') \in DOMAIN wire' /\ Len(wire') \in Len(wire) + 1 .. Len(wire')
      /\ written[i] + (Len(wire') - Len(wire)) = n
  BY <1>1, <1>2
<1>10. wire' # <<>> /\ Last' = <<i, n>>
  <2>1. wire'[Len(wire')] = <<i, written[i] + (Len(wire') - Len(wire))>>
    BY <1>4, <1>9
  <2>2. wire' # <<>>
    BY <1>9
  <2> QED
    BY <1>9, <2>1, <2>2 DEF Last
<1> QED
  BY <1>6, <1>8, <1>9, <1>10

\* What is left behind the line that was read has moved to the front.
LEMMA ReadPlaces ==
    ASSUME StreamAssumption, TypeOK, NEW n \in DOMAIN wire, ReadTo(n)
    PROVE  /\ n \in 1 .. Len(wire)
           /\ \A m \in DOMAIN wire' :
                 /\ m \in Nat \ {0} /\ m + n \in DOMAIN wire /\ wire'[m] = wire[m + n]
                 /\ m # 1 => m - 1 \in DOMAIN wire'
                             /\ wire'[m - 1] = wire[m + n - 1]
           /\ \A m \in DOMAIN wire :
                 m > n => m - n \in DOMAIN wire' /\ wire'[m - n] = wire[m]
           /\ wire' # <<>> => wire # <<>> /\ Last' = Last
<1>1. /\ Len(wire) \in Nat /\ DOMAIN wire = 1 .. Len(wire)
      /\ DOMAIN wire' = 1 .. Len(wire') /\ wire' \in Seq(Line \X Nat)
      /\ Len(wire') = Len(wire) - n
      /\ \A m \in 1 .. Len(wire') : wire'[m] = wire[m + n]
  BY DEF ReadTo, TypeOK
<1>2. n \in 1 .. Len(wire) /\ n \in Nat
  BY <1>1
<1>3. ASSUME NEW m \in DOMAIN wire'
      PROVE  /\ m \in Nat \ {0} /\ m + n \in DOMAIN wire /\ wire'[m] = wire[m + n]
             /\ m # 1 => m - 1 \in DOMAIN wire' /\ wire'[m - 1] = wire[m + n - 1]
  <2>1. m \in 1 .. Len(wire) - n /\ m \in Nat \ {0} /\ m + n \in 1 .. Len(wire)
    BY <1>1, <1>2
  <2>2. m # 1 => m - 1 \in 1 .. Len(wire') /\ (m - 1) + n = m + n - 1
    BY <1>1, <1>2, <2>1, SMTT(15)
  <2> QED
    BY <1>1, <2>1, <2>2
<1>4. ASSUME NEW m \in DOMAIN wire, m > n
      PROVE  m - n \in DOMAIN wire' /\ wire'[m - n] = wire[m]
  <2>1. m - n \in 1 .. Len(wire') /\ (m - n) + n = m
    BY <1>1, <1>2, <1>4
  <2> QED
    BY <1>1, <2>1
<1>5. ASSUME wire' # <<>> PROVE wire # <<>> /\ Last' = Last
  <2>1. Len(wire') \in 1 .. Len(wire') /\ Len(wire') + n = Len(wire)
    BY <1>1, <1>2, <1>5
  <2>2. wire # <<>>
    BY <1>2
  <2> QED
    BY <1>1, <2>1, <2>2 DEF Last
<1> QED
  BY <1>2, <1>3, <1>4, <1>5

-----------------------------------------------------------------------------
\* Types.

\* A line number stays one when a line is sent.
LEMMA LineGrows ==
    ASSUME StreamAssumption, TypeOK, NEW n \in Length, send(n)
    PROVE  /\ sent' \in Seq(Length) /\ Len(sent') = Len(sent) + 1
           /\ Line' = 1 .. Len(sent) + 1 /\ Line \subseteq Line'
           /\ Len(sent) + 1 \in Line' /\ Len(sent) + 1 \notin Line
           /\ \A i \in Line : sent'[i] = sent[i] /\ written'[i] = written[i]
           /\ written'[Len(sent) + 1] = 0
           /\ written' \in [Line' -> Nat]
<1>1. sent' = Append(sent, n) /\ written' = Append(written, 0)
  BY DEF send
<1>2. sent \in Seq(Length) /\ Len(sent) \in Nat /\ Line = 1 .. Len(sent)
  BY Units DEF TypeOK
<1>3. /\ sent' \in Seq(Length) /\ Len(sent') = Len(sent) + 1
      /\ \A i \in 1 .. Len(sent) : sent'[i] = sent[i]
  BY <1>1, <1>2, AppendProperties
<1>4. Line' = 1 .. Len(sent) + 1
  BY <1>3 DEF Line
<1>5. written \in Seq(Nat) /\ Len(written) = Len(sent)
  <2>1. written \in [1 .. Len(sent) -> Nat]
    BY <1>2 DEF TypeOK
  <2> QED
    BY <1>2, <2>1
<1>6. /\ written' \in Seq(Nat) /\ Len(written') = Len(sent) + 1
      /\ \A i \in 1 .. Len(sent) : written'[i] = written[i]
      /\ written'[Len(sent) + 1] = 0
  BY <1>1, <1>5, AppendProperties
<1> QED
  BY <1>2, <1>3, <1>4, <1>6

\* Every step keeps the types.
LEMMA StreamType ==
    ASSUME StreamAssumption, TypeOK, [Next]_vars
    PROVE  TypeOK'
<1>1. ASSUME NEW n \in Length, send(n) PROVE TypeOK'
  <2>1. {ops', handlers', got'} \subseteq Seq(Line')
    <3>1. {ops, handlers, got} \subseteq Seq(Line')
      BY <1>1, LineGrows, SeqMonotonic DEF TypeOK
    <3>2. /\ ops' = Append(ops, Len(sent) + 1)
          /\ handlers' = handlers /\ got' = got
      BY <1>1 DEF send
    <3> QED
      BY <1>1, <3>1, <3>2, LineGrows
  <2>2. wire' = wire /\ torn' = torn /\ up' = up
    BY <1>1 DEF send
  <2>3. wire' \in Seq(Line' \X Nat)
    <3>1. Line \X Nat \subseteq Line' \X Nat
      BY <1>1, LineGrows
    <3> QED
      BY <2>2, <3>1, SeqMonotonic DEF TypeOK
  <2>4. \A m \in DOMAIN wire' : wire'[m][2] \in 1 .. sent'[wire'[m][1]]
    BY <1>1, <2>2, LineGrows, Units
  <2>5. \A i \in Line' : written'[i] <= sent'[i]
    <3> SUFFICES ASSUME NEW i \in Line' PROVE written'[i] <= sent'[i]
      OBVIOUS
    <3>1. CASE i \in Line
      BY <1>1, <3>1, LineGrows DEF TypeOK
    <3>2. CASE i = Len(sent) + 1
      <4>1. sent'[i] \in Length
        BY <1>1, <3>2, LineGrows, ElementOfSeq, Units
      <4> QED
        <5>1. written'[i] = 0 /\ sent'[i] \in Nat
          BY <1>1, <3>2, <4>1, LineGrows DEF StreamAssumption
        <5> QED
          BY <5>1
    <3> QED
      BY <1>1, <3>1, <3>2, LineGrows, Units
  <2>6. torn' \subseteq Line' /\ up' \in BOOLEAN
    BY <1>1, <2>2, LineGrows DEF TypeOK
  <2> QED
    BY <1>1, <2>1, <2>3, <2>4, <2>5, <2>6, LineGrows DEF TypeOK
<1>2. CASE WriteSome
  <2>1. PICK i \in Line, n \in Nat : Piece(i, n)
    BY <1>2, PieceTaken
  <2>2. sent' = sent /\ Line' = Line /\ up' = up /\ got' = got
    BY <2>1 DEF Piece, Line
  <2>3. ops' \in Seq(Line) /\ handlers' \in Seq(Line)
    BY <2>1 DEF Piece, TypeOK
  <2>4. torn' \subseteq Line
    <3>1. Tears(i) \subseteq Line
      <4>1. wire # <<>> => Len(wire) \in DOMAIN wire
        BY DEF TypeOK
      <4>2. wire # <<>> => wire[Len(wire)][1] \in Line
        BY <4>1, Units
      <4> QED
        BY <4>2 DEF Tears
    <3> QED
      BY <2>1, <3>1 DEF Piece, TypeOK
  <2>5. written' \in [Line -> Nat] /\ \A j \in Line : written'[j] <= sent[j]
    BY <2>1 DEF Piece, TypeOK
  <2>6. ASSUME NEW m \in DOMAIN wire' PROVE wire'[m][2] \in 1 .. sent[wire'[m][1]]
    <3>1. CASE m \in DOMAIN wire /\ wire'[m] = wire[m]
      BY <3>1, Units
    <3>2. CASE wire'[m][1] = i /\ wire'[m][2] \in written[i] + 1 .. n
      <4>1. written[i] \in Nat /\ n <= sent[i] /\ sent[i] \in Nat
        BY <2>1, Units DEF Piece
      <4>2. wire'[m][2] \in 1 .. sent[i]
        BY <3>2, <4>1
      <4> QED
        BY <3>2, <4>2
    <3> QED
      BY <2>1, <2>6, <3>1, <3>2, PiecePlaces
  <2>7. wire' \in Seq(Line \X Nat) /\ got \in Seq(Line) /\ up \in BOOLEAN
        /\ sent \in Seq(Length)
    BY <2>1 DEF Piece, TypeOK
  <2> QED
    BY <2>2, <2>3, <2>4, <2>5, <2>6, <2>7 DEF TypeOK
<1>3. CASE Continue
  <2>1. Head(handlers) \in Line /\ Tail(handlers) \in Seq(Line)
    BY <1>3 DEF Continue, TypeOK
  <2>2. ops' \in Seq(Line) /\ handlers' \in Seq(Line)
    BY <1>3, <2>1 DEF Continue, TypeOK
  <2>3. UNCHANGED <<sent, written, wire, up, torn, got, Line>>
    BY <1>3 DEF Continue, Line
  <2> QED
    BY <2>2, <2>3 DEF TypeOK
<1>4. CASE read_next
  <2>1. PICK n \in DOMAIN wire : ReadTo(n)
    BY <1>4, LineTaken
  <2>2. UNCHANGED <<sent, written, ops, handlers, up, torn, Line>>
    BY <2>1 DEF ReadTo, Line
  <2>3. got' \in Seq(Line)
    <3>1. 1 \in DOMAIN wire
      BY <2>1, Units
    <3> QED
      BY <2>1, <3>1, Units DEF ReadTo, TypeOK
  <2>4. ASSUME NEW m \in DOMAIN wire' PROVE wire'[m][2] \in 1 .. sent[wire'[m][1]]
    <3>1. wire'[m] = wire[m + n] /\ m + n \in DOMAIN wire
      BY <2>1, ReadPlaces
    <3> QED
      BY <3>1, Units
  <2> QED
    BY <2>1, <2>2, <2>3, <2>4 DEF ReadTo, TypeOK
<1>5. CASE HangUp
  <2>1. UNCHANGED <<sent, written, torn, got, Line>>
        /\ up' = FALSE /\ ops' = <<>> /\ handlers' = <<>>
    BY <1>5 DEF HangUp, Line
  <2>2. PICK n \in 0 .. Len(wire) :
              /\ wire' \in Seq(Line \X Nat) /\ DOMAIN wire' = 1 .. n
              /\ \A m \in 1 .. n : wire'[m] = wire[m]
    BY <1>5, WireCut
  <2>3. ASSUME NEW m \in DOMAIN wire' PROVE wire'[m][2] \in 1 .. sent[wire'[m][1]]
    <3>1. wire'[m] = wire[m] /\ m \in DOMAIN wire
      <4>1. Len(wire) \in Nat /\ DOMAIN wire = 1 .. Len(wire)
        BY DEF TypeOK
      <4> QED
        BY <2>2, <4>1
    <3> QED
      BY <3>1, Units
  <2>4. ops' \in Seq(Line) /\ handlers' \in Seq(Line)
    BY <2>1
  <2> QED
    BY <2>1, <2>2, <2>3, <2>4 DEF TypeOK
<1>6. CASE UNCHANGED vars
  BY <1>6 DEF vars, TypeOK, Line
<1> QED
  BY <1>1, <1>2, <1>3, <1>4, <1>5, <1>6 DEF Next

(***************************************************************************)
(* Whatever is sent and however it is cut into pieces, the wire holds only *)
(* units that were sent (server.cpp:113-134, NetworkClient.cpp:120-136).   *)
(***************************************************************************)
THEOREM StreamTypeCorrect == Spec => []TypeOK
<1>1. Init => TypeOK
  BY DEF Init, TypeOK, Line
<1>2. TypeOK /\ [Next]_vars => TypeOK'
  BY StreamAssumption, StreamType
<1> QED
  BY <1>1, <1>2, PTL DEF Spec

-----------------------------------------------------------------------------
\* Where a unit is expected.

\* A piece at the end does not change what the units before it follow.
LEMMA FollowsBeforePiece ==
    ASSUME StreamAssumption, TypeOK, NEW i \in Line, NEW k \in Nat, Piece(i, k),
           NEW m \in DOMAIN wire
    PROVE  Follows(m)' <=> Follows(m)
<1>1. sent' = sent /\ wire'[m] = wire[m]
  BY PiecePlaces DEF Piece
<1>2. m > 1 => wire'[m - 1] = wire[m - 1]
  <2>1. m > 1 => m - 1 \in DOMAIN wire
    BY Units
  <2> QED
    BY <2>1, PiecePlaces
<1>3. m \in Nat /\ m >= 1
  BY Units
<1>4. m # 1 <=> m > 1
  BY <1>3
<1> QED
  BY <1>1, <1>2, <1>4 DEF Follows, EndsLine

\* Nor does it matter that the line before them has been read.
LEMMA FollowsAfterRead ==
    ASSUME StreamAssumption, TypeOK, NEW n \in DOMAIN wire, ReadTo(n),
           NEW m \in DOMAIN wire'
    PROVE  Follows(m)' <=> Follows(m + n)
<1>1. /\ sent' = sent /\ EndsLine(wire[n])
      /\ wire'[m] = wire[m + n] /\ m + n \in DOMAIN wire
      /\ m \in Nat \ {0} /\ n \in Nat \ {0}
  BY ReadPlaces, SMTT(15) DEF ReadTo
<1>2. m + n # 1 /\ m + n > 1
  <2>1. m \in Nat \ {0} /\ n \in Nat \ {0}
    BY <1>1
  <2> QED
    BY <2>1
<1>3. CASE m = 1
  <2>1. m + n - 1 = n
    BY <1>1, <1>3
  <2>2. ASSUME wire[m + n][2] # 1
        PROVE  wire[n] # <<wire[m + n][1], wire[m + n][2] - 1>>
    <3> SUFFICES ASSUME wire[n] = <<wire[m + n][1], wire[m + n][2] - 1>>
                 PROVE  FALSE
      OBVIOUS
    <3>1. wire[n][2] = wire[m + n][2] - 1 /\ wire[n][1] = wire[m + n][1]
      OBVIOUS
    <3>2. wire[m + n][2] - 1 = sent[wire[m + n][1]]
      BY <1>1, <3>1 DEF EndsLine
    <3>3. /\ wire[m + n][2] \in 1 .. sent[wire[m + n][1]]
          /\ sent[wire[m + n][1]] \in Nat
      BY <1>1, Units
    <3> QED
      BY <3>2, <3>3
  <2>3. CASE wire[m + n][2] = 1
    <3>1. Follows(m + n)
      BY <1>1, <2>1, <2>3 DEF Follows
    <3>2. Follows(m)'
      BY <1>1, <1>3, <2>3 DEF Follows
    <3> QED
      BY <3>1, <3>2
  <2>4. CASE wire[m + n][2] # 1
    <3>1. ~Follows(m + n)
      <4>1. (m + n) - 1 = n
        BY <1>1, <2>1
      <4> QED
        BY <2>2, <2>4, <4>1 DEF Follows
    <3>2. ~Follows(m)'
      BY <1>1, <1>3, <2>4 DEF Follows
    <3> QED
      BY <3>1, <3>2
  <2> QED
    BY <2>3, <2>4
<1>4. CASE m # 1
  <2>1. m > 1 /\ wire'[m - 1] = wire[m + n - 1]
    BY <1>1, <1>4, ReadPlaces
  <2> QED
    BY <1>1, <1>2, <1>4, <2>1 DEF Follows, EndsLine
<1> QED
  BY <1>3, <1>4

\* And what is lost behind them does not either.
LEMMA FollowsBeforeCut ==
    ASSUME StreamAssumption, TypeOK, sent' = sent, NEW n \in 0 .. Len(wire),
           \A k \in 1 .. n : wire'[k] = wire[k], NEW m \in 1 .. n
    PROVE  Follows(m)' <=> Follows(m)
<1>1. Len(wire) \in Nat
  BY DEF TypeOK
<1>2. m > 1 => m - 1 \in 1 .. n
  BY <1>1
<1>3. wire'[m] = wire[m] /\ (m > 1 => wire'[m - 1] = wire[m - 1])
  BY <1>2
<1>4. m # 1 <=> m > 1
  BY <1>1
<1> QED
  BY <1>3, <1>4 DEF Follows, EndsLine

-----------------------------------------------------------------------------
\* The invariant, when a line is sent.

\* A new line has nothing written, and waits behind all the others.
LEMMA SendKeeps ==
    ASSUME StreamAssumption, TypeOK, PiecesInOrder,
           NEW n \in Length, send(n)
    PROVE  PiecesInOrder'
<1> DEFINE new == Len(sent) + 1
<1>1. /\ up = TRUE /\ ops' = Append(ops, new)
      /\ UNCHANGED <<handlers, wire, up, torn, got>>
  BY DEF send, TypeOK
<1>2. /\ Line' = 1 .. new /\ Line = 1 .. Len(sent) /\ Len(sent) \in Nat
      /\ new \in Line' /\ new \notin Line
      /\ \A i \in Line' : i \in Line \/ i = new
      /\ \A i \in Line : /\ i \in Line' /\ i # new
                         /\ sent'[i] = sent[i] /\ written'[i] = written[i]
      /\ written'[new] = 0
  <2>1. Line = 1 .. Len(sent) /\ Len(sent) \in Nat
    BY Units
  <2>2. Line' = 1 .. new
    BY LineGrows
  <2>3. \A i \in Line' : i \in Line \/ i = new
    BY <2>1, <2>2
  <2> QED
    BY <2>1, <2>2, <2>3, LineGrows
<1>3. sent'[new] # 0
  <2>1. sent' = Append(sent, n) /\ sent \in Seq(Length)
    BY DEF send, TypeOK
  <2>2. sent'[new] = n
    BY <2>1, AppendProperties
  <2> QED
    BY <2>2 DEF StreamAssumption
<1>4. \A m \in DOMAIN wire : wire[m][1] \in Line
  BY Units
<1>5. \A m \in DOMAIN wire : EndsLine(wire[m])' <=> EndsLine(wire[m])
  BY <1>1, <1>2, <1>4 DEF EndsLine
<1>6. \A m \in DOMAIN wire : Follows(m)' <=> Follows(m)
  <2> SUFFICES ASSUME NEW m \in DOMAIN wire PROVE Follows(m)' <=> Follows(m)
    OBVIOUS
  <2>1. m = 1 \/ m - 1 \in DOMAIN wire
    BY Units
  <2> QED
    BY <1>1, <1>5, <2>1 DEF Follows
<1>7. Len(wire) \in DOMAIN wire \/ wire = <<>>
  BY DEF TypeOK
<1> HIDE DEF new
<1>8. WrittenOnce'
  BY <1>1, <1>2, <1>4, <1>7 DEF PiecesInOrder, WrittenOnce, Last
<1>9. StartedInOrder'
  <2>1. /\ Len(ops) \in Nat /\ DOMAIN ops = 1 .. Len(ops)
        /\ DOMAIN ops' = 1 .. Len(ops) + 1
        /\ \A a \in DOMAIN ops : a \in DOMAIN ops' /\ ops'[a] = ops[a]
                                 /\ ops[a] \in Line
        /\ ops'[Len(ops) + 1] = new
    <3>1. ops \in Seq(Line')
      BY <1>2, LineGrows, SeqMonotonic DEF TypeOK
    <3>2. ops \in Seq(Line)
      BY DEF TypeOK
    <3> QED
      BY <1>1, <1>2, <3>1, <3>2
  <2>2. ASSUME NEW j \in Line', written'[j] = 0
        PROVE  \E a \in DOMAIN ops' : ops'[a] = j
    <3>1. CASE j = new
      BY <2>1, <3>1
    <3>2. CASE j \in Line
      BY <1>1, <1>2, <2>1, <2>2, <3>2 DEF PiecesInOrder, StartedInOrder
    <3> QED
      BY <1>2, <3>1, <3>2
  <2>3. ASSUME NEW b \in DOMAIN ops', NEW j \in Line', j < ops'[b], written'[j] = 0
        PROVE  \E a \in 1 .. b - 1 : ops'[a] = j
    <3>1. CASE b \in DOMAIN ops
      <4>1. ops'[b] = ops[b] /\ ops[b] \in Line /\ j \in Line
        BY <1>2, <2>1, <2>3, <3>1
      <4>2. PICK a \in 1 .. b - 1 : ops[a] = j
        BY <1>2, <2>3, <3>1, <4>1 DEF PiecesInOrder, StartedInOrder
      <4>3. a \in DOMAIN ops
        BY <2>1, <3>1
      <4> QED
        BY <2>1, <4>2, <4>3
    <3>2. CASE b = Len(ops) + 1
      <4>1. j \in Line
        BY <1>2, <2>1, <2>3, <3>2
      <4>2. PICK a \in DOMAIN ops : ops[a] = j
        BY <1>1, <1>2, <2>3, <4>1 DEF PiecesInOrder, StartedInOrder
      <4>3. a \in 1 .. b - 1
        BY <2>1, <3>2
      <4> QED
        BY <2>1, <4>2, <4>3
    <3> QED
      BY <2>1, <2>3, <3>1, <3>2
  <2> QED
    BY <2>2, <2>3 DEF StartedInOrder
<1>10. Unbroken'
  <2>1. \A m \in DOMAIN wire' : wire'[m][1] \notin torn' => Follows(m)'
    BY <1>1, <1>6 DEF PiecesInOrder, Unbroken
  <2>2. ASSUME NEW i \in Line' \ torn', 0 < written'[i], written'[i] < sent'[i]
        PROVE  wire' # <<>> /\ Last' = <<i, written'[i]>>
    <3>1. i \in Line /\ written'[i] = written[i] /\ sent'[i] = sent[i]
      BY <1>2, <2>2
    <3> QED
      BY <1>1, <2>2, <3>1 DEF PiecesInOrder, Unbroken, Last
  <2> QED
    BY <2>1, <2>2 DEF Unbroken
<1>11. Broken'
  <2> SUFFICES ASSUME NEW i \in torn'
               PROVE  /\ written'[i] > 0
                      /\ (\A k \in 1 .. written'[i] : OnWire(i, k)') => Spoiled(i)'
    BY DEF Broken
  <2>1. i \in torn /\ i \in Line
    BY <1>1 DEF TypeOK
  <2>2. written'[i] = written[i] /\ sent'[i] = sent[i]
    BY <1>2, <2>1
  <2>3. \A k : OnWire(i, k)' <=> OnWire(i, k)
    BY <1>1 DEF OnWire
  <2>4. Spoiled(i) => Spoiled(i)'
    BY <1>1, <1>6, <2>2 DEF Spoiled, Last
  <2> QED
    BY <2>1, <2>2, <2>3, <2>4 DEF PiecesInOrder, Broken
<1>12. ReadInOrder'
  <2>1. Channel!Arrived' = Channel!Arrived /\ Channel!Arrived \subseteq Line
    BY <1>1 DEF Channel!Arrived, TypeOK
  <2>2. ASSUME NEW i \in Channel!Arrived'
        PROVE  written'[i] = sent'[i] /\ \A m \in DOMAIN wire' : wire'[m][1] # i
    BY <1>1, <1>2, <2>1 DEF PiecesInOrder, ReadInOrder
  <2>3. ASSUME NEW j \in Line' \ (torn' \cup Channel!Arrived')
        PROVE  /\ up' /\ written'[j] = sent'[j] => OnWire(j, sent[j])'
               /\ \A m \in DOMAIN wire' : j < wire'[m][1]
                     => \E l \in 1 .. m - 1 : wire'[l] = <<j, sent'[j]>>
    <3>1. CASE j = new
      <4>1. ASSUME NEW m \in DOMAIN wire PROVE ~(new < wire[m][1])
        <5>1. wire[m][1] \in 1 .. Len(sent)
          BY <1>2, <1>4
        <5> QED
          BY <1>2, <5>1 DEF new
      <4> QED
        BY <1>1, <1>2, <1>3, <3>1, <4>1
    <3>2. CASE j \in Line
      <4>1. /\ wire' = wire /\ written'[j] = written[j] /\ sent'[j] = sent[j]
            /\ j \in Line \ (torn \cup Channel!Arrived)
        BY <1>1, <1>2, <2>1, <2>3, <3>2
      <4>2. /\ up /\ written[j] = sent[j] => OnWire(j, sent[j])
            /\ \A m \in DOMAIN wire : j < wire[m][1]
                  => \E l \in 1 .. m - 1 : wire[l] = <<j, sent[j]>>
        BY <4>1 DEF PiecesInOrder, ReadInOrder
      <4> QED
        BY <1>1, <4>1, <4>2 DEF OnWire
    <3> QED
      BY <1>2, <3>1, <3>2
  <2> QED
    BY <2>2, <2>3 DEF ReadInOrder
<1> QED
  BY <1>8, <1>9, <1>10, <1>11, <1>12 DEF PiecesInOrder

-----------------------------------------------------------------------------
\* The invariant, when the socket takes a piece.

\* The line on the wire's end that a piece of another one tears: it is not
\* written to its end yet.
LEMMA Tearing ==
    ASSUME StreamAssumption, TypeOK, PiecesInOrder, up, NEW i \in Line,
           NEW t \in Tears(i)
    PROVE  /\ wire # <<>> /\ Len(wire) \in DOMAIN wire
           /\ ~EndsLine(Last) /\ Last[1] # i /\ Last[1] \in Line
           /\ written[Last[1]] > 0 /\ written[Last[1]] < sent[Last[1]]
           /\ Tears(i) = {i, Last[1]}
<1>1. /\ wire # <<>> /\ ~EndsLine(Last) /\ Last[1] # i
      /\ Tears(i) = {i, Last[1]}
  BY DEF Tears, Last
<1>2. Len(wire) \in DOMAIN wire
  BY <1>1 DEF TypeOK
<1>3. Last[1] \in Line /\ Last[2] \in 1 .. sent[Last[1]] /\ sent[Last[1]] \in Nat
  BY <1>2, Units DEF Last
<1>4. Last[2] = written[Last[1]]
  BY <1>1 DEF PiecesInOrder, WrittenOnce
<1>5. Last[2] # sent[Last[1]]
  BY <1>1 DEF EndsLine
<1> QED
  BY <1>1, <1>2, <1>3, <1>4, <1>5

\* A line that a piece of i does not tear is at its end, or i itself, if it
\* has begun and is not torn already.
LEMMA NotTorn ==
    ASSUME StreamAssumption, TypeOK, PiecesInOrder, up, NEW i \in Line,
           NEW j \in Line \ (torn \cup Tears(i)), j # i, written[j] # 0
    PROVE  written[j] = sent[j]
<1>1. written[j] \in Nat /\ sent[j] \in Nat /\ written[j] <= sent[j]
  BY Units DEF TypeOK
<1> SUFFICES ASSUME written[j] < sent[j] PROVE FALSE
  BY <1>1
<1>2. wire # <<>> /\ Last = <<j, written[j]>>
  BY <1>1 DEF PiecesInOrder, Unbroken
<1>3. ~EndsLine(Last) /\ Last[1] = j
  BY <1>1, <1>2 DEF EndsLine
<1> QED
  BY <1>2, <1>3 DEF Tears, Last

\* What is written before is written still, and what is written now is new.
LEMMA WriteKeepsOnce ==
    ASSUME StreamAssumption, TypeOK, PiecesInOrder,
           NEW i \in Line, NEW n \in Nat, Piece(i, n)
    PROVE  WrittenOnce'
<1>1. /\ written[i] \in Nat /\ written[i] < n /\ Len(wire) \in Nat
      /\ written' = [written EXCEPT ![i] = n] /\ written \in [Line -> Nat]
  <2>1. written[i] < n /\ written' = [written EXCEPT ![i] = n]
    BY DEF Piece
  <2>2. Len(wire) \in Nat /\ written \in [Line -> Nat]
    BY DEF TypeOK
  <2> QED
    BY <2>1, <2>2
<1>2. \A m \in DOMAIN wire : /\ wire[m][1] \in Line /\ wire[m][2] \in Nat
                             /\ wire[m][2] <= written[wire[m][1]]
  BY Units DEF PiecesInOrder, WrittenOnce
<1>3. ASSUME NEW m \in DOMAIN wire' PROVE wire'[m][2] <= written'[wire'[m][1]]
  <2>1. CASE m \in DOMAIN wire /\ wire'[m] = wire[m]
    <3>1. written[wire[m][1]] <= written'[wire[m][1]]
      BY <1>1, <1>2, <2>1
    <3>2. /\ wire[m][2] <= written[wire[m][1]]
          /\ wire[m][2] \in Nat /\ written[wire[m][1]] \in Nat
          /\ written'[wire[m][1]] \in Nat
      BY <1>1, <1>2, <2>1
    <3> QED
      BY <2>1, <3>1, <3>2
  <2>2. CASE wire'[m][1] = i /\ wire'[m][2] \in written[i] + 1 .. n
    BY <1>1, <2>2
  <2> QED
    BY <2>1, <2>2, PiecePlaces
<1>4. ASSUME NEW m \in DOMAIN wire, NEW l \in DOMAIN wire', l \notin DOMAIN wire
      PROVE  wire'[l] # wire[m]
  <2>1. wire'[l][1] = i /\ wire'[l][2] \in written[i] + 1 .. n
    BY <1>4, PiecePlaces
  <2>2. wire[m][1] = i => wire[m][2] <= written[i] /\ wire[m][2] \in Nat
    BY <1>2
  <2> QED
    BY <1>1, <2>1, <2>2
<1>5. ASSUME NEW m \in DOMAIN wire', NEW l \in DOMAIN wire', wire'[m] = wire'[l]
      PROVE  m = l
  <2>1. CASE m \in DOMAIN wire /\ l \in DOMAIN wire
    BY <1>5, <2>1, PiecePlaces DEF PiecesInOrder, WrittenOnce
  <2>2. CASE m \in DOMAIN wire /\ l \notin DOMAIN wire
    BY <1>4, <1>5, <2>2, PiecePlaces
  <2>3. CASE m \notin DOMAIN wire /\ l \in DOMAIN wire
    BY <1>4, <1>5, <2>3, PiecePlaces
  <2>4. CASE m \notin DOMAIN wire /\ l \notin DOMAIN wire
    <3>1. /\ wire'[m][2] = written[i] + (m - Len(wire))
          /\ wire'[l][2] = written[i] + (l - Len(wire))
      BY <2>4, PiecePlaces
    <3>2. m \in Nat /\ l \in Nat
      <4>1. DOMAIN wire' = 1 .. Len(wire')
        BY DEF Piece
      <4> QED
        BY <4>1
    <3> QED
      BY <1>1, <1>5, <3>1, <3>2
  <2> QED
    BY <2>1, <2>2, <2>3, <2>4
<1>6. Last'[2] = written'[Last'[1]]
  <2>1. Last' = <<i, n>>
    BY PiecePlaces
  <2> QED
    BY <1>1, <2>1
<1> QED
  BY <1>3, <1>5, <1>6 DEF WrittenOnce

\* The line that has waited longest leaves the queue, and has been started.
LEMMA WriteKeepsStarted ==
    ASSUME StreamAssumption, TypeOK, PiecesInOrder,
           NEW i \in Line, NEW n \in Nat, Piece(i, n)
    PROVE  StartedInOrder'
<1>1. /\ ops # <<>> /\ ops' = Tail(ops) /\ i = ops[1]
      /\ ops \in Seq(Line) /\ Len(ops) \in Nat /\ DOMAIN ops = 1 .. Len(ops)
  BY DEF Piece, TypeOK
<1>2. /\ DOMAIN ops' = 1 .. Len(ops) - 1
      /\ \A a \in DOMAIN ops' : ops'[a] = ops[a + 1]
  BY <1>1
<1>3. up /\ up' = up /\ sent' = sent /\ Line' = Line
  BY DEF Piece, Line
<1>4. ASSUME NEW j \in Line, written'[j] = 0 PROVE j # i /\ written[j] = 0
  <2>1. /\ written[i] \in Nat /\ written[i] < n /\ written \in [Line -> Nat]
        /\ written' = [written EXCEPT ![i] = n]
    BY DEF Piece, TypeOK
  <2> QED
    BY <1>4, <2>1
<1>5. ASSUME NEW j \in Line, written'[j] = 0
      PROVE  \E a \in DOMAIN ops' : ops'[a] = j
  <2>1. PICK a \in DOMAIN ops : ops[a] = j
    BY <1>3, <1>4, <1>5 DEF PiecesInOrder, StartedInOrder
  <2>2. a # 1
    BY <1>1, <1>4, <1>5, <2>1
  <2>3. a - 1 \in DOMAIN ops' /\ (a - 1) + 1 = a
    BY <1>1, <1>2, <2>2
  <2> QED
    BY <1>2, <2>1, <2>3
<1>6. ASSUME NEW b \in DOMAIN ops', NEW j \in Line, j < ops'[b], written'[j] = 0
      PROVE  \E a \in 1 .. b - 1 : ops'[a] = j
  <2>1. b + 1 \in DOMAIN ops /\ ops'[b] = ops[b + 1] /\ b \in Nat
    BY <1>1, <1>2
  <2>2. PICK a \in 1 .. (b + 1) - 1 : ops[a] = j
    BY <1>4, <1>6, <2>1 DEF PiecesInOrder, StartedInOrder
  <2>3. a # 1
    BY <1>1, <1>4, <1>6, <2>2
  <2>4. a - 1 \in 1 .. b - 1 /\ a - 1 \in DOMAIN ops' /\ (a - 1) + 1 = a
    BY <1>1, <1>2, <2>1, <2>3
  <2> QED
    BY <1>2, <2>2, <2>4
<1> QED
  BY <1>3, <1>5, <1>6 DEF StartedInOrder

\* A piece of a line that is not torn by it is where it is expected.
LEMMA WriteKeepsUnbroken ==
    ASSUME StreamAssumption, TypeOK, PiecesInOrder,
           NEW i \in Line, NEW n \in Nat, Piece(i, n)
    PROVE  Unbroken'
<1>1. /\ up = TRUE /\ up' = up /\ sent' = sent /\ Line' = Line
      /\ torn' = torn \cup Tears(i)
      /\ written[i] \in Nat /\ written[i] < n /\ n <= sent[i]
      /\ written' = [written EXCEPT ![i] = n] /\ written \in [Line -> Nat]
  BY DEF Piece, Line, TypeOK
<1>2. /\ Len(wire) \in Nat /\ DOMAIN wire = 1 .. Len(wire) /\ sent[i] \in Nat
      /\ Len(wire') \in Nat /\ DOMAIN wire' = 1 .. Len(wire')
  <2>1. Len(wire) \in Nat /\ DOMAIN wire = 1 .. Len(wire) /\ sent[i] \in Nat
    BY Units
  <2>2. wire' \in Seq(Line \X Nat)
    BY DEF Piece
  <2> QED
    BY <2>1, <2>2
<1>3. ASSUME NEW m \in DOMAIN wire', wire'[m][1] \notin torn' PROVE Follows(m)'
  <2>1. CASE m \in DOMAIN wire
    <3>1. wire'[m] = wire[m]
      BY <2>1, PiecePlaces
    <3>2. Follows(m)
      BY <1>1, <1>3, <2>1, <3>1 DEF PiecesInOrder, Unbroken
    <3> QED
      BY <2>1, <3>2, FollowsBeforePiece
  <2>2. CASE m \notin DOMAIN wire
    <3> DEFINE k == m - Len(wire)
    <3>1. wire'[m] = <<i, written[i] + k>> /\ wire'[m][1] = i
          /\ wire'[m][2] = written[i] + k
      BY <2>2, PiecePlaces
    <3>2. m \in Nat /\ k \in Nat /\ k >= 1 /\ m = Len(wire) + k
      BY <1>2, <2>2
    <3>3. i \notin torn /\ Tears(i) = {}
      <4>1. i \notin torn /\ i \notin Tears(i)
        BY <1>1, <1>3, <3>1
      <4> QED
        BY <4>1 DEF Tears
    <3>4. CASE k # 1
      <4>1. m - 1 \in DOMAIN wire' /\ m - 1 \notin DOMAIN wire /\ m > 1
        BY <1>2, <3>2, <3>4
      <4>2. wire'[m - 1] = <<i, written[i] + ((m - 1) - Len(wire))>>
        BY <4>1, PiecePlaces
      <4>3. /\ written[i] + ((m - 1) - Len(wire)) = (written[i] + k) - 1
            /\ written[i] + k # 1
        <5>1. /\ Len(wire) \in Nat /\ written[i] \in Nat /\ k \in Nat
              /\ k >= 1 /\ k # 1 /\ m = Len(wire) + k
          BY <1>1, <1>2, <3>2, <3>4
        <5> HIDE DEF k
        <5> QED
          BY <5>1
      <4>4. wire'[m - 1] = <<wire'[m][1], wire'[m][2] - 1>> /\ wire'[m][2] # 1
        BY <3>1, <4>2, <4>3
      <4> QED
        BY <4>1, <4>4 DEF Follows
    <3>5. CASE k = 1 /\ written[i] = 0
      <4>1. wire'[m][2] = 1 /\ m = Len(wire) + 1
        BY <3>1, <3>2, <3>5
      <4>2. CASE wire = <<>>
        <5>1. m = 1
          BY <4>1, <4>2
        <5> QED
          BY <4>1, <5>1 DEF Follows
      <4>3. CASE wire # <<>>
        <5>1. Len(wire) \in DOMAIN wire /\ m - 1 = Len(wire)
          BY <1>2, <4>1, <4>3
        <5>2. /\ wire[Len(wire)][2] \in 1 .. sent[wire[Len(wire)][1]]
              /\ wire[Len(wire)][2] <= written[wire[Len(wire)][1]]
          BY <5>1, Units DEF PiecesInOrder, WrittenOnce
        <5>3. wire[Len(wire)][1] # i
          BY <3>5, <5>2
        <5>4. EndsLine(wire[Len(wire)])
          BY <3>3, <4>3, <5>3 DEF Tears
        <5>5. wire'[m - 1] = wire[Len(wire)]
          BY <5>1, PiecePlaces
        <5>6. EndsLine(wire[m - 1])'
          BY <1>1, <5>4, <5>5 DEF EndsLine
        <5> QED
          BY <4>1, <5>6 DEF Follows
      <4> QED
        BY <4>2, <4>3
    <3>6. CASE k = 1 /\ written[i] # 0
      <4>1. wire # <<>> /\ Last = <<i, written[i]>>
        BY <1>1, <1>2, <3>3, <3>6 DEF PiecesInOrder, Unbroken
      <4>2. Len(wire) \in DOMAIN wire /\ m - 1 = Len(wire) /\ m > 1
        BY <1>2, <3>2, <3>6, <4>1
      <4>3. wire'[m - 1] = <<i, written[i]>>
        BY <4>1, <4>2, PiecePlaces DEF Last
      <4>4. wire'[m - 1] = <<wire'[m][1], wire'[m][2] - 1>> /\ wire'[m][2] # 1
        BY <1>1, <3>1, <3>6, <4>3
      <4> QED
        BY <4>2, <4>4 DEF Follows
    <3> QED
      BY <3>4, <3>5, <3>6
  <2> QED
    BY <2>1, <2>2
<1>4. ASSUME NEW j \in Line \ torn', 0 < written'[j], written'[j] < sent[j]
      PROVE  wire' # <<>> /\ Last' = <<j, written'[j]>>
  <2>1. CASE j = i
    BY <1>1, <2>1, PiecePlaces
  <2>2. CASE j # i
    <3>1. written'[j] = written[j] /\ j \in Line \ (torn \cup Tears(i))
      BY <1>1, <1>4, <2>2
    <3>2. written[j] # 0 /\ written[j] # sent[j]
      BY <1>1, <1>4, <3>1, Units
    <3> QED
      BY <1>1, <2>2, <3>1, <3>2, NotTorn
  <2> QED
    BY <2>1, <2>2
<1> QED
  BY <1>1, <1>3, <1>4 DEF Unbroken

\* A torn line has a unit out of place, or is not on the wire's end any more.
LEMMA WriteKeepsBroken ==
    ASSUME StreamAssumption, TypeOK, PiecesInOrder,
           NEW i \in Line, NEW n \in Nat, Piece(i, n)
    PROVE  Broken'
<1>1. /\ up = TRUE /\ up' = up /\ sent' = sent
      /\ torn' = torn \cup Tears(i)
      /\ written[i] \in Nat /\ written[i] < n
      /\ written' = [written EXCEPT ![i] = n]
  BY DEF Piece, TypeOK
<1>2. /\ written \in [Line -> Nat] /\ torn \subseteq Line
      /\ Len(wire) \in Nat /\ DOMAIN wire = 1 .. Len(wire)
  BY DEF TypeOK
<1>3. wire' # <<>> /\ Last' = <<i, n>> /\ Last'[1] = i
  BY PiecePlaces
\* Where the piece begins.
<1>4. PICK b \in DOMAIN wire' :
         /\ b = Len(wire) + 1 /\ b \notin DOMAIN wire
         /\ wire'[b] = <<i, written[i] + 1>> /\ wire'[b][1] = i
         /\ wire'[b][2] = written[i] + 1
  <2>1. Len(wire') \in DOMAIN wire' /\ DOMAIN wire' = 1 .. Len(wire')
        /\ Len(wire') = Len(wire) + (n - written[i])
    BY PiecePlaces DEF Piece
  <2>2. Len(wire) + 1 \in DOMAIN wire' /\ Len(wire) + 1 \notin DOMAIN wire
        /\ (Len(wire) + 1) - Len(wire) = 1
    BY <1>1, <1>2, <2>1
  <2> QED
    BY <2>2, PiecePlaces
<1>b. b \in Nat /\ b - 1 = Len(wire)
  BY <1>2, <1>4
\* A piece that goes on with a line that was not the last one is out of place.
<1>5. ASSUME wire # <<>>, written[i] > 0, Last[1] # i PROVE ~Follows(b)'
  <2>1. Len(wire) \in DOMAIN wire /\ wire'[b - 1] = Last
    BY <1>2, <1>b, <1>5, PiecePlaces DEF Last
  <2>2. wire'[b - 1] # <<wire'[b][1], wire'[b][2] - 1>>
    BY <1>4, <1>5, <2>1
  <2>3. wire'[b][2] # 1
    BY <1>1, <1>4, <1>5
  <2> QED
    BY <2>2, <2>3 DEF Follows
\* So is one that starts a line where another has not ended.
<1>6. ASSUME wire # <<>>, written[i] = 0, ~EndsLine(Last) PROVE ~Follows(b)'
  <2>1. Len(wire) \in DOMAIN wire /\ wire'[b - 1] = Last
    BY <1>2, <1>b, <1>6, PiecePlaces DEF Last
  <2>2. wire'[b][2] = 1 /\ b # 1
    BY <1>2, <1>4, <1>6, <2>1
  <2>3. ~EndsLine(wire[b - 1])'
    BY <1>1, <1>6, <2>1 DEF EndsLine
  <2> QED
    BY <2>2, <2>3 DEF Follows
<1>7. ASSUME NEW j \in torn, \A k \in 1 .. written'[j] : OnWire(j, k)'
      PROVE  written'[j] > 0 /\ Spoiled(j)'
  <2>1. j \in Line /\ written[j] \in Nat /\ written[j] > 0
    BY <1>2 DEF PiecesInOrder, Broken
  <2>2. \A k \in 1 .. written[j] : OnWire(j, k)
    <3> SUFFICES ASSUME NEW k \in 1 .. written[j] PROVE OnWire(j, k)
      OBVIOUS
    <3>1. k \in 1 .. written'[j]
      BY <1>1, <1>2, <2>1
    <3>2. PICK m \in DOMAIN wire' : wire'[m] = <<j, k>>
      BY <1>7, <3>1 DEF OnWire
    <3>3. wire'[m][1] = j /\ wire'[m][2] = k
      BY <3>2
    <3>4. CASE m \in DOMAIN wire /\ wire'[m] = wire[m]
      BY <3>2, <3>4 DEF OnWire
    <3>5. CASE wire'[m][1] = i /\ wire'[m][2] \in written[i] + 1 .. n
      BY <1>1, <2>1, <3>3, <3>5
    <3> QED
      BY <3>4, <3>5, PiecePlaces
  <2>3. Spoiled(j)
    BY <2>2 DEF PiecesInOrder, Broken
  <2>4. CASE \E m \in DOMAIN wire : wire[m][1] = j /\ ~Follows(m)
    <3>1. PICK m \in DOMAIN wire : wire[m][1] = j /\ ~Follows(m)
      BY <2>4
    <3>2. m \in DOMAIN wire' /\ wire'[m] = wire[m]
      BY PiecePlaces
    <3>3. ~Follows(m)'
      BY <3>1, FollowsBeforePiece
    <3>4. Spoiled(j)'
      BY <3>1, <3>2, <3>3 DEF Spoiled
    <3> QED
      BY <1>1, <1>2, <2>1, <3>4
  <2>5. CASE written[j] < sent[j] /\ wire # <<>> /\ Last[1] # j
    <3>1. CASE j = i
      <4>1. Spoiled(j)'
        BY <1>4, <1>5, <2>1, <2>5, <3>1 DEF Spoiled
      <4> QED
        BY <1>1, <1>2, <2>1, <3>1, <4>1
    <3>2. CASE j # i
      <4>1. written'[j] = written[j]
        BY <1>1, <1>2, <3>2
      <4> QED
        BY <1>1, <1>3, <2>1, <2>5, <3>2, <4>1 DEF Spoiled
    <3> QED
      BY <3>1, <3>2
  <2> QED
    BY <1>1, <2>3, <2>4, <2>5 DEF Spoiled
<1>8. ASSUME NEW j \in Tears(i) PROVE written'[j] > 0 /\ Spoiled(j)'
  <2>1. /\ wire # <<>> /\ ~EndsLine(Last) /\ Last[1] # i /\ Last[1] \in Line
        /\ written[Last[1]] > 0 /\ written[Last[1]] < sent[Last[1]]
        /\ j = i \/ j = Last[1]
    BY <1>1, <1>8, Tearing
  <2>2. CASE j = i
    <3>1. ~Follows(b)'
      BY <1>1, <1>5, <1>6, <2>1
    <3>2. Spoiled(j)'
      BY <1>4, <2>2, <3>1 DEF Spoiled
    <3> QED
      BY <1>1, <1>2, <2>2, <3>2
  <2>3. CASE j = Last[1]
    <3>1. written'[j] = written[j]
      BY <1>1, <1>2, <2>1, <2>3
    <3> QED
      BY <1>1, <1>3, <2>1, <2>3, <3>1 DEF Spoiled
  <2> QED
    BY <2>1, <2>2, <2>3
<1>9. ASSUME NEW j \in torn PROVE written'[j] > 0
  <2>1. j \in Line /\ written[j] \in Nat /\ written[j] > 0
    BY <1>2 DEF PiecesInOrder, Broken
  <2> QED
    BY <1>1, <1>2, <2>1
<1> QED
  BY <1>1, <1>7, <1>8, <1>9 DEF Broken

\* When a line's units come, all the earlier lines have come, or are torn.
LEMMA WriteKeepsRead ==
    ASSUME StreamAssumption, TypeOK, PiecesInOrder,
           NEW i \in Line, NEW n \in Nat, Piece(i, n)
    PROVE  ReadInOrder'
<1>1. /\ up = TRUE /\ up' = up /\ sent' = sent /\ got' = got
      /\ torn' = torn \cup Tears(i)
      /\ written[i] \in Nat /\ written[i] < n /\ n <= sent[i]
      /\ written' = [written EXCEPT ![i] = n]
      /\ ops # <<>> /\ i = Head(ops)
  BY DEF Piece, TypeOK
<1>2. /\ written \in [Line -> Nat] /\ torn \subseteq Line
      /\ Len(wire) \in Nat /\ DOMAIN wire = 1 .. Len(wire)
      /\ Line' = Line /\ Channel!Arrived' = Channel!Arrived
      /\ Channel!Arrived \subseteq Line /\ sent[i] \in Nat
      /\ 1 \in DOMAIN ops /\ i = ops[1]
  <2>1. /\ written \in [Line -> Nat] /\ torn \subseteq Line
        /\ Len(wire) \in Nat /\ DOMAIN wire = 1 .. Len(wire)
        /\ sent[i] \in Nat
    BY Units DEF TypeOK
  <2>2. 1 \in DOMAIN ops /\ i = ops[1]
    BY <1>1 DEF TypeOK
  <2>3. Line' = Line /\ Channel!Arrived' = Channel!Arrived
        /\ Channel!Arrived \subseteq Line
    BY <1>1 DEF TypeOK, Channel!Arrived, Line
  <2> QED
    BY <2>1, <2>2, <2>3
<1>3. ASSUME NEW j \in Channel!Arrived
      PROVE  written'[j] = sent[j] /\ \A m \in DOMAIN wire' : wire'[m][1] # j
  <2>1. written[j] = sent[j] /\ \A m \in DOMAIN wire : wire[m][1] # j
    BY DEF PiecesInOrder, ReadInOrder
  <2>2. j # i
    BY <1>1, <1>2, <2>1
  <2> QED
    BY <1>1, <1>2, <2>1, <2>2, PiecePlaces
<1>4. ASSUME NEW j \in Line \ (torn' \cup Channel!Arrived), written'[j] = sent[j]
      PROVE  OnWire(j, sent[j])'
  <2>1. CASE j = i
    <3>1. n = sent[j]
      BY <1>1, <1>2, <1>4, <2>1
    <3>2. Len(wire') \in DOMAIN wire' /\ wire'[Len(wire')] = <<i, n>>
      BY PiecePlaces DEF Last
    <3> QED
      BY <1>1, <2>1, <3>1, <3>2 DEF OnWire
  <2>2. CASE j # i
    <3>1. written[j] = sent[j]
      BY <1>1, <1>2, <1>4, <2>2
    <3>2. OnWire(j, sent[j])
      BY <1>1, <1>4, <3>1 DEF PiecesInOrder, ReadInOrder
    <3> QED
      BY <1>1, <3>2, PiecePlaces DEF OnWire
  <2> QED
    BY <2>1, <2>2
<1>5. ASSUME NEW j \in Line \ (torn' \cup Channel!Arrived),
             NEW m \in DOMAIN wire', j < wire'[m][1]
      PROVE  \E l \in 1 .. m - 1 : wire'[l] = <<j, sent[j]>>
  <2>1. CASE m \in DOMAIN wire
    <3>1. wire'[m] = wire[m]
      BY <2>1, PiecePlaces
    <3>2. PICK l \in 1 .. m - 1 : wire[l] = <<j, sent[j]>>
      BY <1>1, <1>5, <2>1, <3>1 DEF PiecesInOrder, ReadInOrder
    <3>3. l \in DOMAIN wire
      BY <1>2, <2>1
    <3> QED
      BY <3>2, <3>3, PiecePlaces
  <2>2. CASE m \notin DOMAIN wire
    <3>1. j < i
      BY <1>5, <2>2, PiecePlaces
    <3>2. j # i /\ j \in Line \ (torn \cup Tears(i))
      BY <1>1, <1>2, <3>1, Units
    <3>3. written[j] # 0
      <4> SUFFICES ASSUME written[j] = 0 PROVE FALSE
        OBVIOUS
      <4>1. PICK a \in 1 .. 1 - 1 : ops[a] = j
        BY <1>2, <3>1 DEF PiecesInOrder, StartedInOrder
      <4> QED
        BY <4>1
    <3>4. written[j] = sent[j]
      BY <1>1, <3>2, <3>3, NotTorn
    <3>5. OnWire(j, sent[j])
      BY <1>1, <1>5, <3>4 DEF PiecesInOrder, ReadInOrder
    <3>6. PICK l \in DOMAIN wire : wire[l] = <<j, sent[j]>>
      BY <3>5 DEF OnWire
    <3>7. m \in Nat
      BY DEF Piece
    <3>8. l \in 1 .. m - 1
      BY <1>2, <2>2, <3>7, Units DEF Piece
    <3> QED
      BY <3>6, <3>8, PiecePlaces
  <2> QED
    BY <2>1, <2>2
<1> QED
  BY <1>1, <1>2, <1>3, <1>4, <1>5, ZenonT(30) DEF ReadInOrder

\* The invariant, when the socket takes a piece.
LEMMA WriteKeeps ==
    ASSUME StreamAssumption, TypeOK, PiecesInOrder, WriteSome
    PROVE  PiecesInOrder'
<1>1. PICK i \in Line, n \in Nat : Piece(i, n)
  BY PieceTaken
<1>2. WrittenOnce' /\ StartedInOrder'
  BY <1>1, WriteKeepsOnce, WriteKeepsStarted
<1>3. Unbroken' /\ Broken' /\ ReadInOrder'
  BY <1>1, WriteKeepsUnbroken, WriteKeepsBroken, WriteKeepsRead
<1> QED
  BY <1>2, <1>3 DEF PiecesInOrder

\* The invariant, when a handler goes on with its line or is done with it.
LEMMA ContinueKeeps ==
    ASSUME StreamAssumption, TypeOK, PiecesInOrder, Continue
    PROVE  PiecesInOrder'
<1> DEFINE i == Head(handlers)
<1>1. /\ up = TRUE
      /\ UNCHANGED <<sent, written, wire, up, torn, got, Line>>
      /\ ops' = Append(ops, i) \/ ops' = ops
  BY DEF Continue, Line, TypeOK
<1>2. i \in Line /\ ops \in Seq(Line)
  BY DEF Continue, TypeOK
<1> HIDE DEF i
<1>3. /\ WrittenOnce' /\ Unbroken'
  <2>1. WrittenOnce'
    BY <1>1 DEF PiecesInOrder, WrittenOnce, Last
  <2>2. \A m : Follows(m)' <=> Follows(m)
    BY <1>1 DEF Follows, EndsLine
  <2>3. Unbroken'
    BY <1>1, <2>2 DEF PiecesInOrder, Unbroken, Last
  <2> QED
    BY <2>1, <2>3
<1>4. ReadInOrder'
  <2>1. Channel!Arrived' = Channel!Arrived
    BY <1>1 DEF Channel!Arrived
  <2> QED
    BY <1>1, <2>1, ZenonT(30) DEF PiecesInOrder, ReadInOrder, OnWire
<1>5. Broken'
  <2>1. \A m : Follows(m)' <=> Follows(m)
    BY <1>1 DEF Follows, EndsLine
  <2>2. \A j, k : OnWire(j, k)' <=> OnWire(j, k)
    BY <1>1 DEF OnWire
  <2>3. \A j : Spoiled(j)' <=> Spoiled(j)
    BY <1>1, <2>1 DEF Spoiled, Last
  <2> QED
    BY <1>1, <2>2, <2>3 DEF PiecesInOrder, Broken
<1>6. StartedInOrder'
  <2>1. CASE ops' = ops
    BY <1>1, <2>1 DEF PiecesInOrder, StartedInOrder
  <2>2. CASE ops' = Append(ops, i)
    <3>1. /\ Len(ops) \in Nat /\ DOMAIN ops = 1 .. Len(ops)
          /\ DOMAIN ops' = 1 .. Len(ops) + 1
          /\ \A a \in DOMAIN ops : a \in DOMAIN ops' /\ ops'[a] = ops[a]
          /\ ops'[Len(ops) + 1] = i
      BY <1>2, <2>2
    <3>2. ASSUME NEW j \in Line, written[j] = 0
          PROVE  \E a \in DOMAIN ops : ops[a] = j
      BY <1>1, <3>2 DEF PiecesInOrder, StartedInOrder
    <3>3. ASSUME NEW b \in DOMAIN ops', NEW j \in Line, j < ops'[b], written[j] = 0
          PROVE  \E a \in 1 .. b - 1 : ops'[a] = j
      <4>1. CASE b \in DOMAIN ops
        <5>1. PICK a \in 1 .. b - 1 : ops[a] = j
          BY <3>1, <3>3, <4>1 DEF PiecesInOrder, StartedInOrder
        <5>2. a \in DOMAIN ops
          BY <3>1, <4>1
        <5> QED
          BY <3>1, <5>1, <5>2
      <4>2. CASE b = Len(ops) + 1
        <5>1. PICK a \in DOMAIN ops : ops[a] = j
          BY <3>2, <3>3
        <5>2. a \in 1 .. b - 1
          BY <3>1, <4>2
        <5> QED
          BY <3>1, <5>1, <5>2
      <4> QED
        BY <3>1, <3>3, <4>1, <4>2
    <3> QED
      BY <1>1, <3>1, <3>2, <3>3 DEF StartedInOrder
  <2> QED
    BY <1>1, <2>1, <2>2
<1> QED
  BY <1>3, <1>4, <1>5, <1>6 DEF PiecesInOrder

-----------------------------------------------------------------------------
\* The invariant, when the reader takes what it takes for a line.

\* Behind the last unit of a line that is not torn are all its other units,
\* one before the other, up to the beginning of what the reader takes.
LEMMA ComesWhole ==
    ASSUME StreamAssumption, TypeOK, PiecesInOrder,
           NEW n \in DOMAIN wire, ReadTo(n),
           NEW j \in Line \ torn, wire[n] = <<j, sent[j]>>
    PROVE  IsWhole(n) /\ wire[1][1] = j
<1>1. sent[j] \in Nat \ {0} /\ n \in Nat \ {0} /\ Len(wire) \in Nat
      /\ DOMAIN wire = 1 .. Len(wire) /\ n <= Len(wire)
  BY Units
<1> DEFINE T == {t \in Nat : t < n /\ wire[n - t] = <<j, sent[j] - t>>}
<1>2. 0 \in T
  <2>1. n - 0 = n /\ sent[j] - 0 = sent[j]
    BY <1>1
  <2> QED
    BY <1>1, <2>1
<1>3. ASSUME NEW t \in 0 .. sent[j] - 1, t # sent[j] - 1, t \in T
      PROVE  t + 1 \in T
  <2>1. /\ t \in Nat /\ t < n /\ wire[n - t] = <<j, sent[j] - t>>
        /\ n - t \in DOMAIN wire /\ sent[j] - t # 1
    BY <1>1, <1>3
  <2>2. Follows(n - t)
    BY <2>1 DEF PiecesInOrder, Unbroken
  <2>3. /\ n - t > 1
        /\ wire[(n - t) - 1] = <<wire[n - t][1], wire[n - t][2] - 1>>
    BY <2>1, <2>2 DEF Follows
  <2>4. t + 1 < n /\ (n - t) - 1 = n - (t + 1)
        /\ (sent[j] - t) - 1 = sent[j] - (t + 1)
    BY <1>1, <2>1, <2>3
  <2>5. wire[n - (t + 1)] = <<j, sent[j] - (t + 1)>>
    BY <2>1, <2>3, <2>4
  <2> QED
    BY <2>1, <2>4, <2>5
<1>4. \A t \in 0 .. sent[j] - 1 : t \in T
  <2>1. sent[j] - 1 \in Nat
    BY <1>1
  <2> HIDE DEF T
  <2> QED
    BY <1>2, <1>3, <2>1, UpTo
<1>5. \A t \in 0 .. sent[j] - 1 : t < n /\ wire[n - t] = <<j, sent[j] - t>>
  BY <1>4
<1>6. n = sent[j]
  <2> DEFINE f == n - (sent[j] - 1)
  <2>1. sent[j] - 1 \in 0 .. sent[j] - 1 /\ sent[j] - (sent[j] - 1) = 1
    BY <1>1
  <2>2. sent[j] - 1 < n /\ wire[f] = <<j, 1>>
    BY <1>5, <2>1
  <2>3. f \in DOMAIN wire /\ f \in Nat
    BY <1>1, <2>2
  <2>4. Follows(f)
    BY <2>2, <2>3 DEF PiecesInOrder, Unbroken
  <2>5. f = 1 \/ EndsLine(wire[f - 1])
    BY <2>2, <2>4 DEF Follows
  <2>6. f # 1 => f - 1 \in 1 .. n - 1
    BY <1>1, <2>2, <2>3
  <2>7. f = 1
    BY <2>5, <2>6 DEF ReadTo
  <2> QED
    BY <1>1, <2>7
<1>7. ASSUME NEW k \in 1 .. n PROVE wire[k] = <<j, k>>
  <2>1. n - k \in 0 .. sent[j] - 1 /\ n - (n - k) = k /\ sent[j] - (n - k) = k
    BY <1>1, <1>6
  <2> QED
    BY <1>5, <2>1
<1>8. wire[1][1] = j
  BY <1>1, <1>7
<1> QED
  BY <1>6, <1>7, <1>8 DEF IsWhole

\* A line that is parsed is nobody's but its own, and is taken as a whole.
LEMMA TakenWhole ==
    ASSUME StreamAssumption, TypeOK, PiecesInOrder,
           NEW n \in DOMAIN wire, ReadTo(n), IsWhole(n), NEW i, i = wire[1][1]
    PROVE  /\ i \in Line /\ i \notin torn /\ i \notin Channel!Arrived
           /\ written[i] = sent[i] /\ n = sent[i]
           /\ \A k \in 1 .. n : wire[k] = <<i, k>>
           /\ \A m \in DOMAIN wire : wire[m][1] = i => m <= n
<1>1. 1 \in DOMAIN wire /\ n \in Nat \ {0} /\ n \in DOMAIN wire
      /\ DOMAIN wire = 1 .. Len(wire) /\ Len(wire) \in Nat
  BY Units
<1>2. /\ i \in Line /\ n = sent[i] /\ \A k \in 1 .. n : wire[k] = <<i, k>>
      /\ sent[i] \in Nat
  BY <1>1, Units DEF IsWhole
<1>3. written[i] = sent[i]
  <2>1. wire[n] = <<i, n>> /\ wire[n][2] <= written[wire[n][1]]
    BY <1>1, <1>2 DEF PiecesInOrder, WrittenOnce
  <2>2. written[i] \in Nat /\ written[i] <= sent[i]
    BY <1>2 DEF TypeOK
  <2> QED
    BY <1>2, <2>1, <2>2
<1>4. ASSUME NEW m \in DOMAIN wire, wire[m][1] = i
      PROVE  m <= n /\ m = wire[m][2]
  <2> DEFINE k == wire[m][2]
  <2>1. k \in 1 .. n /\ wire[m] = <<i, k>>
    BY <1>2, <1>4, Units
  <2>2. wire[k] = <<i, k>> /\ k \in DOMAIN wire
    BY <1>1, <1>2, <2>1
  <2>3. m = k
    BY <2>1, <2>2 DEF PiecesInOrder, WrittenOnce
  <2> QED
    BY <1>1, <2>1, <2>3
<1>5. i \notin Channel!Arrived
  <2>1. wire[1][1] = i
    OBVIOUS
  <2> QED
    BY <1>1, <2>1 DEF PiecesInOrder, ReadInOrder
<1>6. i \notin torn
  <2> SUFFICES ASSUME i \in torn PROVE FALSE
    OBVIOUS
  <2>1. \A k \in 1 .. written[i] : OnWire(i, k)
    BY <1>1, <1>2, <1>3 DEF OnWire
  <2>2. Spoiled(i)
    BY <2>1 DEF PiecesInOrder, Broken
  <2>3. PICK m \in DOMAIN wire : wire[m][1] = i /\ ~Follows(m)
    BY <1>2, <1>3, <2>2 DEF Spoiled
  <2>4. m <= n /\ m = wire[m][2] /\ m \in Nat \ {0}
    BY <1>1, <1>4, <2>3
  <2>5. CASE m = 1
    BY <2>3, <2>4, <2>5 DEF Follows
  <2>6. CASE m # 1
    <3>1. m > 1 /\ m - 1 \in 1 .. n
      BY <1>1, <2>4, <2>6
    <3>2. wire[m - 1] = <<wire[m][1], wire[m][2] - 1>>
      BY <1>2, <2>3, <2>4, <3>1
    <3> QED
      BY <2>3, <2>4, <2>6, <3>1, <3>2 DEF Follows
  <2> QED
    BY <2>5, <2>6
<1> QED
  BY <1>2, <1>3, <1>4, <1>5, <1>6

\* What has arrived when the reader has taken a line.
LEMMA ArrivedGrows ==
    ASSUME StreamAssumption, TypeOK, NEW n \in DOMAIN wire, ReadTo(n)
    PROVE  Channel!Arrived' = IF IsWhole(n) THEN Channel!Arrived \cup {wire[1][1]}
                              ELSE Channel!Arrived
<1>1. got \in Seq(Line) /\ wire[1][1] \in Line
  BY Units DEF TypeOK
<1>2. got' = IF IsWhole(n) THEN Append(got, wire[1][1]) ELSE got
  BY DEF ReadTo
<1>3. CASE IsWhole(n)
  <2>1. /\ Len(got) \in Nat /\ DOMAIN got = 1 .. Len(got)
        /\ DOMAIN got' = 1 .. Len(got) + 1
        /\ \A k \in 1 .. Len(got) : got'[k] = got[k]
        /\ got'[Len(got) + 1] = wire[1][1]
    BY <1>1, <1>2, <1>3
  <2>2. ASSUME NEW i PROVE i \in Channel!Arrived' <=>
                           i \in Channel!Arrived \/ i = wire[1][1]
    <3>1. ASSUME NEW k \in DOMAIN got', i = got'[k]
          PROVE  i \in Channel!Arrived \/ i = wire[1][1]
      <4>1. k \in DOMAIN got \/ k = Len(got) + 1
        BY <2>1
      <4> QED
        BY <2>1, <3>1, <4>1 DEF Channel!Arrived
    <3>2. ASSUME NEW k \in DOMAIN got, i = got[k] PROVE i \in Channel!Arrived'
      <4>1. k \in DOMAIN got' /\ got'[k] = i
        BY <2>1, <3>2
      <4> QED
        BY <4>1 DEF Channel!Arrived
    <3>3. ASSUME i = wire[1][1] PROVE i \in Channel!Arrived'
      <4>1. Len(got) + 1 \in DOMAIN got' /\ got'[Len(got) + 1] = i
        BY <2>1, <3>3
      <4> QED
        BY <4>1 DEF Channel!Arrived
    <3> QED
      BY <3>1, <3>2, <3>3 DEF Channel!Arrived
  <2> QED
    BY <1>3, <2>2
<1>4. CASE ~IsWhole(n)
  BY <1>2, <1>4 DEF Channel!Arrived
<1> QED
  BY <1>3, <1>4

\* The invariant, when the reader takes what it takes for a line.
LEMMA ReadKeeps ==
    ASSUME StreamAssumption, TypeOK, PiecesInOrder, read_next
    PROVE  PiecesInOrder'
<1>1. PICK n \in DOMAIN wire : ReadTo(n)
  BY LineTaken
<1>2. /\ UNCHANGED <<sent, written, ops, handlers, up, torn, Line>>
      /\ EndsLine(wire[n]) /\ \A k \in 1 .. n - 1 : ~EndsLine(wire[k])
  BY <1>1 DEF ReadTo, Line
<1>3. \A m \in DOMAIN wire' :
         m \in Nat \ {0} /\ m + n \in DOMAIN wire /\ wire'[m] = wire[m + n]
  BY <1>1, ReadPlaces
<1>4. \A m \in DOMAIN wire : m > n => m - n \in DOMAIN wire' /\ wire'[m - n] = wire[m]
  BY <1>1, ReadPlaces
<1>5. wire' # <<>> => wire # <<>> /\ Last' = Last
  BY <1>1, ReadPlaces
<1>6. n \in Nat \ {0} /\ n \in 1 .. Len(wire) /\ DOMAIN wire \subseteq Nat \ {0}
  BY Units
<1>7. WrittenOnce'
  <2>1. \A m \in DOMAIN wire' : wire'[m][2] <= written'[wire'[m][1]]
    BY <1>2, <1>3 DEF PiecesInOrder, WrittenOnce
  <2>2. ASSUME NEW m \in DOMAIN wire', NEW l \in DOMAIN wire', wire'[m] = wire'[l]
        PROVE  m = l
    <3>1. m + n = l + n
      BY <1>3, <2>2 DEF PiecesInOrder, WrittenOnce
    <3> QED
      BY <1>3, <1>6, <3>1
  <2>3. up' /\ wire' # <<>> => Last'[2] = written'[Last'[1]]
    BY <1>2, <1>5 DEF PiecesInOrder, WrittenOnce
  <2> QED
    BY <2>1, <2>2, <2>3 DEF WrittenOnce
<1>8. StartedInOrder'
  BY <1>2 DEF PiecesInOrder, StartedInOrder
<1>9. Unbroken'
  <2>1. ASSUME NEW m \in DOMAIN wire', wire'[m][1] \notin torn' PROVE Follows(m)'
    <3>1. Follows(m + n)
      BY <1>2, <1>3, <2>1 DEF PiecesInOrder, Unbroken
    <3> QED
      BY <1>1, <3>1, FollowsAfterRead
  <2>2. ASSUME NEW i \in Line \ torn, up, 0 < written[i], written[i] < sent[i]
        PROVE  wire' # <<>> /\ Last' = <<i, written[i]>>
    <3>1. wire # <<>> /\ Last = <<i, written[i]>>
      BY <2>2 DEF PiecesInOrder, Unbroken
    <3>2. written[i] \in Nat /\ sent[i] \in Nat
      BY Units DEF TypeOK
    <3>3. ~EndsLine(Last)
      BY <2>2, <3>1, <3>2 DEF EndsLine
    <3>4. n # Len(wire)
      BY <1>2, <3>3 DEF Last
    <3>5. Len(wire) \in DOMAIN wire /\ Len(wire) > n
      BY <1>6, <3>4, Units
    <3>6. wire' # <<>>
      BY <1>4, <3>5
    <3> QED
      BY <1>5, <3>1, <3>6
  <2> QED
    BY <1>2, <2>1, <2>2 DEF Unbroken
<1>10. Broken'
  <2> SUFFICES ASSUME NEW i \in torn
               PROVE  /\ written[i] > 0
                      /\ (\A k \in 1 .. written[i] : OnWire(i, k)') => Spoiled(i)'
    BY <1>2 DEF Broken
  <2>1. i \in Line /\ written[i] \in Nat /\ written[i] > 0
    BY DEF TypeOK, PiecesInOrder, Broken
  <2>2. ASSUME \A k \in 1 .. written[i] : OnWire(i, k)'
        PROVE  Spoiled(i)'
    <3>1. \A k \in 1 .. written[i] :
             \E m \in DOMAIN wire : m > n /\ wire[m] = <<i, k>>
      <4> SUFFICES ASSUME NEW k \in 1 .. written[i]
                   PROVE  \E m \in DOMAIN wire : m > n /\ wire[m] = <<i, k>>
        OBVIOUS
      <4>1. PICK m \in DOMAIN wire' : wire'[m] = <<i, k>>
        BY <2>2 DEF OnWire
      <4>2. m + n > n
        BY <1>3, <1>6
      <4> QED
        BY <1>3, <4>1, <4>2
    <3>2. Spoiled(i)
      BY <3>1 DEF PiecesInOrder, Broken, OnWire
    <3>3. CASE \E m \in DOMAIN wire : wire[m][1] = i /\ ~Follows(m)
      <4>1. PICK m \in DOMAIN wire : wire[m][1] = i /\ ~Follows(m)
        BY <3>3
      <4>2. wire[m][2] \in 1 .. written[i] /\ wire[m] = <<i, wire[m][2]>>
        <5>1. wire[m][2] \in Nat \ {0} /\ wire[m] = <<wire[m][1], wire[m][2]>>
          BY <4>1, Units
        <5>2. wire[m][2] <= written[i]
          BY <4>1 DEF PiecesInOrder, WrittenOnce
        <5> QED
          BY <2>1, <4>1, <5>1, <5>2
      <4>3. PICK l \in DOMAIN wire : l > n /\ wire[l] = <<i, wire[m][2]>>
        BY <3>1, <4>2
      <4>4. m = l
        BY <4>2, <4>3 DEF PiecesInOrder, WrittenOnce
      <4>5. m - n \in DOMAIN wire' /\ wire'[m - n] = wire[m] /\ (m - n) + n = m
        BY <1>4, <1>6, <4>3, <4>4
      <4>6. ~Follows(m - n)'
        BY <1>1, <4>1, <4>5, FollowsAfterRead
      <4> QED
        BY <4>1, <4>5, <4>6 DEF Spoiled
    <3>4. CASE written[i] < sent[i] /\ (up => wire # <<>> /\ Last[1] # i)
      <4>1. OnWire(i, 1)'
        BY <2>1, <2>2
      <4>2. wire' # <<>>
        BY <4>1 DEF OnWire
      <4> QED
        BY <1>2, <1>5, <3>4, <4>2 DEF Spoiled
    <3> QED
      BY <3>2, <3>3, <3>4 DEF Spoiled
  <2> QED
    BY <2>1, <2>2
<1>11. ReadInOrder'
  <2>1. ASSUME NEW i \in Channel!Arrived'
        PROVE  written[i] = sent[i] /\ \A m \in DOMAIN wire' : wire'[m][1] # i
    <3>1. CASE i \in Channel!Arrived
      BY <1>3, <3>1 DEF PiecesInOrder, ReadInOrder
    <3>2. CASE IsWhole(n) /\ i = wire[1][1]
      <4>1. written[i] = sent[i] /\ \A m \in DOMAIN wire : wire[m][1] = i => m <= n
        BY <1>1, <3>2, TakenWhole
      <4>2. \A m \in DOMAIN wire' : ~(m + n <= n)
        BY <1>3, <1>6
      <4> QED
        BY <1>3, <4>1, <4>2
    <3> QED
      BY <1>1, <2>1, <3>1, <3>2, ArrivedGrows
  <2>2. ASSUME NEW j \in Line \ (torn \cup Channel!Arrived'),
               NEW l \in DOMAIN wire, wire[l] = <<j, sent[j]>>
        PROVE  l > n
    <3> SUFFICES ASSUME l <= n PROVE FALSE
      BY <1>6
    <3>1. EndsLine(wire[l])
      BY <2>2 DEF EndsLine
    <3>2. l = n
      <4>1. l \in 1 .. n
        BY <1>6
      <4> QED
        BY <1>2, <1>6, <3>1, <4>1
    <3>3. IsWhole(n) /\ wire[1][1] = j
      BY <1>1, <2>2, <3>2, ComesWhole
    <3> QED
      BY <1>1, <2>2, <3>3, ArrivedGrows
  <2>3. ASSUME NEW j \in Line \ (torn \cup Channel!Arrived')
        PROVE  /\ up /\ written[j] = sent[j] => OnWire(j, sent[j])'
               /\ \A m \in DOMAIN wire' : j < wire'[m][1]
                     => \E l \in 1 .. m - 1 : wire'[l] = <<j, sent[j]>>
    <3>1. j \in Line \ (torn \cup Channel!Arrived)
      BY <1>1, ArrivedGrows
    <3>2. ASSUME up, written[j] = sent[j] PROVE OnWire(j, sent[j])'
      <4>1. PICK l \in DOMAIN wire : wire[l] = <<j, sent[j]>>
        BY <3>1, <3>2 DEF PiecesInOrder, ReadInOrder, OnWire
      <4>2. l > n
        BY <2>2, <4>1
      <4> QED
        BY <1>2, <1>4, <4>1, <4>2 DEF OnWire
    <3>3. ASSUME NEW m \in DOMAIN wire', j < wire'[m][1]
          PROVE  \E l \in 1 .. m - 1 : wire'[l] = <<j, sent[j]>>
      <4>1. m + n \in DOMAIN wire /\ j < wire[m + n][1]
        BY <1>3, <3>3
      <4>2. PICK l \in 1 .. (m + n) - 1 : wire[l] = <<j, sent[j]>>
        BY <3>1, <4>1 DEF PiecesInOrder, ReadInOrder
      <4>3. l \in DOMAIN wire /\ l \in Nat
        BY <4>1, Units
      <4>4. l > n
        BY <2>2, <4>2, <4>3
      <4>5. l - n \in 1 .. m - 1 /\ wire'[l - n] = wire[l]
        <5>1. m \in Nat \ {0} /\ n \in Nat
          BY <1>3, <1>6
        <5>2. l - n \in 1 .. m - 1
          BY <4>2, <4>3, <4>4, <5>1
        <5> QED
          BY <1>4, <4>3, <4>4, <5>2
      <4> QED
        BY <4>2, <4>5
    <3> QED
      BY <3>2, <3>3
  <2> QED
    BY <1>2, <2>1, <2>3 DEF ReadInOrder
<1> QED
  BY <1>7, <1>8, <1>9, <1>10, <1>11 DEF PiecesInOrder

-----------------------------------------------------------------------------
\* The invariant, when the writer hangs up.

\* What is lost then is the end of what is on the wire.
LEMMA HangUpKeeps ==
    ASSUME StreamAssumption, TypeOK, PiecesInOrder, HangUp
    PROVE  PiecesInOrder'
<1>1. /\ UNCHANGED <<sent, written, torn, got, Line>>
      /\ up' = FALSE /\ ops' = <<>>
      /\ Channel!Arrived' = Channel!Arrived
  BY DEF HangUp, Line, Channel!Arrived
<1>2. PICK n \in 0 .. Len(wire) :
              /\ wire' \in Seq(Line \X Nat) /\ DOMAIN wire' = 1 .. n
              /\ \A m \in 1 .. n : wire'[m] = wire[m]
  BY WireCut
<1>3. Len(wire) \in Nat /\ DOMAIN wire = 1 .. Len(wire) /\ n \in Nat
  BY DEF TypeOK
<1>4. \A m \in DOMAIN wire' : m \in DOMAIN wire /\ m \in Nat /\ wire'[m] = wire[m]
  BY <1>2, <1>3
<1>5. \A m \in DOMAIN wire' : Follows(m)' <=> Follows(m)
  BY <1>1, <1>2, FollowsBeforeCut
<1>6. WrittenOnce'
  BY <1>1, <1>4 DEF PiecesInOrder, WrittenOnce
<1>7. StartedInOrder'
  BY <1>1 DEF StartedInOrder
<1>8. Unbroken'
  BY <1>1, <1>4, <1>5 DEF PiecesInOrder, Unbroken
<1>9. Broken'
  <2> SUFFICES ASSUME NEW i \in torn
               PROVE  /\ written[i] > 0
                      /\ (\A k \in 1 .. written[i] : OnWire(i, k)') => Spoiled(i)'
    BY <1>1 DEF Broken
  <2>1. i \in Line /\ written[i] \in Nat /\ written[i] > 0
    BY DEF TypeOK, PiecesInOrder, Broken
  <2>2. ASSUME \A k \in 1 .. written[i] : OnWire(i, k)'
        PROVE  Spoiled(i)'
    <3>1. \A k \in 1 .. written[i] : OnWire(i, k)
      BY <1>4, <2>2 DEF OnWire
    <3>2. Spoiled(i)
      BY <3>1 DEF PiecesInOrder, Broken
    <3>3. CASE \E m \in DOMAIN wire : wire[m][1] = i /\ ~Follows(m)
      <4>1. PICK m \in DOMAIN wire : wire[m][1] = i /\ ~Follows(m)
        BY <3>3
      <4>2. wire[m][2] \in 1 .. written[i] /\ wire[m] = <<i, wire[m][2]>>
        <5>1. wire[m][2] \in Nat \ {0} /\ wire[m] = <<wire[m][1], wire[m][2]>>
          BY <4>1, Units
        <5>2. wire[m][2] <= written[i]
          BY <4>1 DEF PiecesInOrder, WrittenOnce
        <5> QED
          BY <2>1, <4>1, <5>1, <5>2
      <4>3. PICK l \in DOMAIN wire' : wire'[l] = <<i, wire[m][2]>>
        BY <2>2, <4>2 DEF OnWire
      <4>4. m = l
        BY <1>4, <4>2, <4>3 DEF PiecesInOrder, WrittenOnce
      <4> QED
        BY <1>4, <1>5, <4>1, <4>4 DEF Spoiled
    <3>4. CASE written[i] < sent[i]
      BY <1>1, <3>4 DEF Spoiled
    <3> QED
      BY <3>2, <3>3, <3>4 DEF Spoiled
  <2> QED
    BY <2>1, <2>2
<1>10. ReadInOrder'
  <2>1. ASSUME NEW j \in Line \ (torn \cup Channel!Arrived),
               NEW m \in DOMAIN wire', j < wire'[m][1]
        PROVE  \E l \in 1 .. m - 1 : wire'[l] = <<j, sent[j]>>
    <3>1. PICK l \in 1 .. m - 1 : wire[l] = <<j, sent[j]>>
      BY <1>4, <2>1 DEF PiecesInOrder, ReadInOrder
    <3>2. l \in 1 .. n
      BY <1>2, <1>3, <1>4
    <3> QED
      BY <1>2, <3>1, <3>2
  <2>2. ASSUME NEW i \in Channel!Arrived
        PROVE  written[i] = sent[i] /\ \A m \in DOMAIN wire' : wire'[m][1] # i
    BY <1>4 DEF PiecesInOrder, ReadInOrder
  <2> QED
    BY <1>1, <2>1, <2>2 DEF ReadInOrder
<1> QED
  BY <1>6, <1>7, <1>8, <1>9, <1>10 DEF PiecesInOrder

-----------------------------------------------------------------------------
\* The theorems.

\* Every step keeps the pieces in order.
LEMMA StreamStep ==
    ASSUME StreamAssumption, TypeOK, PiecesInOrder, [Next]_vars
    PROVE  PiecesInOrder'
<1>1. CASE UNCHANGED vars
  <2>1. UNCHANGED <<sent, written, ops, wire, up, torn, got, Line>>
        /\ Channel!Arrived' = Channel!Arrived
    BY <1>1 DEF vars, Line, Channel!Arrived
  <2>2. WrittenOnce' /\ StartedInOrder' /\ Unbroken'
    <3>1. WrittenOnce' /\ StartedInOrder'
      BY <2>1 DEF PiecesInOrder, WrittenOnce, StartedInOrder, Last
    <3>2. \A m : Follows(m)' <=> Follows(m)
      BY <2>1 DEF Follows, EndsLine
    <3>3. Unbroken'
      BY <2>1, <3>2 DEF PiecesInOrder, Unbroken, Last
    <3> QED
      BY <3>1, <3>3
  <2>3. ReadInOrder'
    BY <2>1, ZenonT(30) DEF PiecesInOrder, ReadInOrder, OnWire
  <2>4. Broken'
    <3>1. \A m : Follows(m)' <=> Follows(m)
      BY <2>1 DEF Follows, EndsLine
    <3>2. \A j, k : OnWire(j, k)' <=> OnWire(j, k)
      BY <2>1 DEF OnWire
    <3>3. \A j : Spoiled(j)' <=> Spoiled(j)
      BY <2>1, <3>1 DEF Spoiled, Last
    <3> QED
      BY <2>1, <3>2, <3>3 DEF PiecesInOrder, Broken
  <2> QED
    BY <2>2, <2>3, <2>4 DEF PiecesInOrder
<1> QED
  BY <1>1, SendKeeps, WriteKeeps, ContinueKeeps, ReadKeeps, HangUpKeeps DEF Next

(***************************************************************************)
(* However long the lines are and wherever the socket cuts them, the       *)
(* pieces of a line nobody writes into are in one piece on the wire,       *)
(* behind all the earlier lines, and a torn line never looks whole         *)
(* (server.cpp:24-29, NetworkClient.cpp:27-32).                            *)
(***************************************************************************)
THEOREM PiecesStayInOrder == Spec => []PiecesInOrder
<1>1. Init => PiecesInOrder
  <2> SUFFICES ASSUME Init PROVE PiecesInOrder
    OBVIOUS
  <2>1. /\ DOMAIN wire = {} /\ Line = {} /\ DOMAIN ops = {} /\ torn = {}
        /\ wire = <<>> /\ Channel!Arrived = {}
    BY DEF Init, Line, Channel!Arrived
  <2> QED
    BY <2>1 DEF PiecesInOrder, WrittenOnce, StartedInOrder, Unbroken, Broken,
                ReadInOrder
<1>2. TypeOK /\ PiecesInOrder /\ [Next]_vars => PiecesInOrder'
  BY StreamAssumption, StreamStep
<1> QED
  BY <1>1, <1>2, StreamTypeCorrect, PTL DEF Spec

\* Every step of the socket is one of the queue, or none of its business.
LEMMA StreamRefines ==
    ASSUME StreamAssumption, TypeOK, PiecesInOrder, [Next]_vars
    PROVE  [Channel!ChannelNext]_(Channel!channelVars)
<1> USE DEF Channel!channelVars
<1>1. ASSUME NEW n \in Length, send(n) PROVE Channel!ChannelNext
  BY <1>1 DEF send, Channel!ChannelNext, Channel!Submit
<1>2. CASE WriteSome
  <2>1. PICK i \in Line, n \in Nat : Piece(i, n)
    BY <1>2, PieceTaken
  <2>2. /\ sent' = sent /\ got' = got /\ torn' = torn \cup Tears(i)
        /\ up /\ written[i] < n /\ n <= sent[i] /\ written[i] \in Nat
    BY <2>1 DEF Piece
  <2>3. CASE Tears(i) = {}
    BY <2>2, <2>3
  <2>4. CASE Tears(i) # {}
    <3>1. /\ Last[1] # i /\ Last[1] \in Line
          /\ written[Last[1]] > 0 /\ written[Last[1]] < sent[Last[1]]
          /\ Tears(i) = {i, Last[1]}
      BY <2>2, <2>4, Tearing
    <3> DEFINE j == Last[1]
    <3>2. sent[i] \in Nat /\ sent[j] \in Nat /\ written[j] \in Nat
      BY <3>1, Units DEF TypeOK
    <3>3. i \in Channel!UnderWay
      <4>1. written[i] # sent[i]
        BY <2>2, <3>2
      <4> QED
        BY <4>1 DEF PiecesInOrder, ReadInOrder, Channel!UnderWay, Line
    <3>4. j \in Channel!UnderWay
      <4>1. written[j] # sent[j]
        BY <3>1, <3>2
      <4> QED
        BY <3>1, <4>1 DEF PiecesInOrder, ReadInOrder, Channel!UnderWay, Line
    <3>5. sent[j] > 1
      BY <3>1, <3>2
    <3>6. Channel!Collide(i, j)
      BY <2>2, <3>1, <3>5 DEF Channel!Collide
    <3> QED
      BY <3>3, <3>4, <3>6 DEF Channel!ChannelNext
  <2> QED
    BY <2>3, <2>4
<1>3. CASE read_next
  <2>1. PICK n \in DOMAIN wire : ReadTo(n)
    BY <1>3, LineTaken
  <2>2. /\ sent' = sent /\ torn' = torn
        /\ got' = IF IsWhole(n) THEN Append(got, wire[1][1]) ELSE got
    BY <2>1 DEF ReadTo
  <2>3. CASE ~IsWhole(n)
    BY <2>2, <2>3
  <2>4. CASE IsWhole(n)
    <3> DEFINE i == wire[1][1]
    <3>1. i \in Line /\ i \notin torn /\ i \notin Channel!Arrived
      BY <2>1, <2>4, TakenWhole
    <3>2. i \in Channel!UnderWay
      BY <3>1 DEF Channel!UnderWay, Line
    <3>3. ASSUME NEW j \in Channel!UnderWay \ torn PROVE i <= j
      <4>1. j \in Line \ (torn \cup Channel!Arrived)
        BY DEF Channel!UnderWay, Line
      <4>2. 1 \in DOMAIN wire
        BY Units
      <4>3. ~(j < i)
        <5> SUFFICES ASSUME j < i PROVE FALSE
          OBVIOUS
        <5>1. \E l \in 1 .. 1 - 1 : wire[l] = <<j, sent[j]>>
          BY <4>1, <4>2 DEF PiecesInOrder, ReadInOrder
        <5> QED
          BY <5>1
      <4>4. i \in Nat /\ j \in Nat
        BY <3>1, <4>1, Units
      <4> QED
        BY <4>3, <4>4
    <3>4. Channel!Deliver(i)
      BY <2>2, <2>4, <3>1, <3>3 DEF Channel!Deliver
    <3> QED
      BY <3>2, <3>4 DEF Channel!ChannelNext
  <2> QED
    BY <2>3, <2>4
<1>4. CASE Continue \/ HangUp \/ UNCHANGED vars
  BY <1>4 DEF Continue, HangUp, vars
<1> QED
  BY <1>1, <1>2, <1>3, <1>4 DEF Next

(***************************************************************************)
(* The socket is a queue of lines for its two ends: what they read is what *)
(* was sent, in order and once, without the lines that were under way      *)
(* together with one too long for a single write (server.cpp:24-29 and     *)
(* 113-134, NetworkClient.cpp:27-32 and 120-136).                          *)
(***************************************************************************)
THEOREM StreamIsChannel == Spec => IsChannel
<1>1. Init => Channel!ChannelInit
  BY DEF Init, Channel!ChannelInit
<1>2. TypeOK /\ PiecesInOrder /\ [Next]_vars
        => [Channel!ChannelNext]_(Channel!channelVars)
  BY StreamAssumption, StreamRefines
<1> QED
  BY <1>1, <1>2, StreamTypeCorrect, PiecesStayInOrder, PTL
  DEF Spec, IsChannel, Channel!ChannelSpec
=============================================================================
