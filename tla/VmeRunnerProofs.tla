-------------------------- MODULE VmeRunnerProofs ---------------------------
(***************************************************************************)
(* Proofs about VmeRunner, for any number of requests, ports, addresses    *)
(* and connections and any amount of data: the table of connections is     *)
(* that of the threads, and no direction of a connection is cut off.       *)
(***************************************************************************)
EXTENDS VmeRunner, TLAPS

\* A connection whose data are copied or were all copied; and one that failed,
\* or has no sockets any more.
Open ==
    [thread : {"run", "write", "ended", "drop"}, golden : SUBSET Sides, ready : SUBSET Sides,
     sent : [Sides -> Nat], relayed : [Sides -> Nat], fin : SUBSET Sides,
     outcome : {"open", "ok"}]
Closing == [thread : {"none", "ended", "drop"}, outcome : {"none", "failed"}]

VmeTypeOK ==
    /\ proxy \in [Keys -> Open \union Closing]
    /\ connections \subseteq Keys
    /\ leaked \subseteq Keys

\* ConnectionsExact is not inductive: a thread that removes its entry must not
\* find it among those that were left behind.
LeakedInv ==
    \A k \in Keys : proxy[k].thread \in {"run", "write", "ended"} => k \notin leaked

\* NothingCutOff is not inductive: PassEnd passes on the end of a side that
\* select found readable and that has no data, which is its end only because
\* nobody takes data of the connection in between; and what write_all has to
\* write was sent, and not passed on before.
ReadyInv ==
    \A k \in Keys : Live(k) =>
        /\ proxy[k].outcome = "open"
        /\ \A s \in Sides : proxy[k].relayed[s] <= proxy[k].sent[s]
        /\ \A s \in proxy[k].ready : s \in proxy[k].golden /\ Readable(k, s)
WritingInv ==
    \A k \in Keys : proxy[k].thread = "write" => proxy[k].ready # {} /\ HasData(k)

ProxyInv ==
    VmeTypeOK /\ ConnectionsExact /\ LeakedInv /\ ReadyInv /\ WritingInv /\ NothingCutOff

-----------------------------------------------------------------------------
\* The parts of the invariant that are about one connection.
EntryExact(k) ==
    /\ k \in connections <=> proxy[k].thread \in {"run", "write", "ended"} \/ k \in leaked
    /\ proxy[k].thread \in {"run", "write", "ended"} => k \notin leaked
Uncut(k) ==
    /\ Live(k) =>
        /\ proxy[k].outcome = "open"
        /\ \A s \in Sides : proxy[k].relayed[s] <= proxy[k].sent[s]
        /\ \A s \in proxy[k].ready : s \in proxy[k].golden /\ Readable(k, s)
    /\ proxy[k].thread = "write" => proxy[k].ready # {} /\ HasData(k)
    /\ proxy[k].outcome \in {"open", "ok"} =>
        \A s \in Sides \ proxy[k].golden :
            s \in proxy[k].fin /\ proxy[k].relayed[s] = proxy[k].sent[s]

LEMMA ProxyParts ==
    ProxyInv <=> VmeTypeOK /\ \A k \in Keys : EntryExact(k) /\ Uncut(k)
  BY DEF ProxyInv, ConnectionsExact, LeakedInv, ReadyInv, WritingInv, NothingCutOff,
         EntryExact, Uncut

\* What the proxy thread and the parties of k do to the state of k is all that
\* has to be looked at.
LEMMA OneConnection ==
    ASSUME ProxyInv, NEW k \in Keys, NEW c \in Open \union Closing,
           proxy' = [proxy EXCEPT ![k] = c],
           connections' \subseteq Keys, leaked' \subseteq Keys,
           connections' \ {k} = connections \ {k}, leaked' \ {k} = leaked \ {k},
           EntryExact(k)', Uncut(k)'
    PROVE  ProxyInv'
  <1>1. VmeTypeOK'
    BY DEF ProxyInv, VmeTypeOK
  <1>2. ASSUME NEW j \in Keys, j # k PROVE EntryExact(j)' /\ Uncut(j)'
    <2>1. proxy'[j] = proxy[j]
      BY <1>2 DEF ProxyInv, VmeTypeOK
    <2>2. EntryExact(j) /\ Uncut(j)
      BY ProxyParts
    <2>3. (j \in connections' <=> j \in connections) /\ (j \in leaked' <=> j \in leaked)
      BY <1>2
    <2> QED BY <2>1, <2>2, <2>3 DEF EntryExact, Uncut, Live, Readable, HasData, Turn
  <1>3. ASSUME NEW j \in Keys PROVE EntryExact(j)' /\ Uncut(j)'
    BY <1>2
  <1>4. ConnectionsExact' /\ LeakedInv'
    BY <1>3 DEF ConnectionsExact, LeakedInv, EntryExact
  <1>5. ReadyInv' /\ WritingInv' /\ NothingCutOff'
    BY <1>3 DEF ReadyInv, WritingInv, NothingCutOff, Uncut
  <1> QED BY <1>1, <1>4, <1>5 DEF ProxyInv

LEMMA ProxyInit == Init => ProxyInv
  <1> SUFFICES ASSUME Init PROVE ProxyInv
    OBVIOUS
  <1>1. VmeTypeOK
    BY DEF Init, VmeTypeOK, NoSocket, Closing
  <1>2. ASSUME NEW k \in Keys PROVE EntryExact(k) /\ Uncut(k)
    BY DEF Init, NoSocket, EntryExact, Uncut, Live
  <1> QED BY <1>1, <1>2, ProxyParts

LEMMA AddStep ==
    ASSUME ProxyInv, NEW h \in Handlers, NEW k \in Keys, AddConnection(h, k)
    PROVE  ProxyInv'
  <1>0. VmeTypeOK /\ EntryExact(k) /\ proxy[k].thread = "none"
    BY ProxyParts DEF AddConnection, InUse
  <1>1. CASE /\ connections' = connections \union {k}
             /\ proxy' = [proxy EXCEPT ![k] = Fresh] /\ leaked' = leaked \ {k}
    <2>1. Fresh \in Open
      BY DEF Fresh, Open
    <2>2. proxy'[k] = Fresh
      BY <1>0, <1>1 DEF VmeTypeOK
    <2>3. EntryExact(k)' /\ Uncut(k)'
      BY <1>0, <1>1, <2>2 DEF EntryExact, Uncut, Live, Fresh
    <2> QED BY <1>0, <1>1, <2>1, <2>3, OneConnection DEF VmeTypeOK
  <1>2. CASE /\ connections' = connections \union {k}
             /\ leaked' = leaked \union {k} /\ UNCHANGED proxy
    <2>1. proxy' = [proxy EXCEPT ![k] = proxy[k]] /\ proxy[k] \in Open \union Closing
      BY <1>0, <1>2 DEF VmeTypeOK
    <2>2. EntryExact(k)'
      BY <1>0, <1>2 DEF EntryExact
    <2>3. Uncut(k)'
      BY <1>2, ProxyParts DEF Uncut, Live, Readable, HasData, Turn
    <2> QED BY <1>0, <1>2, <2>1, <2>2, <2>3, OneConnection DEF VmeTypeOK
  <1>3. CASE UNCHANGED <<connections, proxy, leaked>>
    BY <1>3 DEF ProxyInv, VmeTypeOK, ConnectionsExact, LeakedInv, ReadyInv, WritingInv, NothingCutOff,
                Live, Readable, HasData, Turn
  <1> QED BY <1>1, <1>2, <1>3 DEF AddConnection

\* The steps of the thread that copies data, and of the two parties.
LEMMA CopyStep ==
    ASSUME ProxyInv, NEW k \in Keys, NEW s \in Sides,
           Select(k) \/ ReadBlock(k) \/ WriteBlock(k) \/ PassEnd(k) \/ Party(k, s)
    PROVE  ProxyInv'
  <1>0. VmeTypeOK /\ EntryExact(k) /\ Uncut(k)
    BY ProxyParts
  <1>1. Live(k) /\ proxy[k] \in Open /\ UNCHANGED <<connections, leaked>>
    <2>1. Live(k) /\ UNCHANGED <<connections, leaked>>
      BY DEF Select, ReadBlock, WriteBlock, PassEnd, Party, Reads, Live, tables
    <2> QED BY <1>0, <2>1 DEF VmeTypeOK, Live, Closing
  <1>2. Turn(k) \in Sides /\ (proxy[k].ready # {} => Turn(k) \in proxy[k].ready)
    BY <1>1 DEF Turn, Open, Sides
  <1> DEFINE turn(c) == IF "remote" \in c.ready THEN "remote" ELSE "enclave"
  <1>3. ASSUME NEW c \in Open, proxy' = [proxy EXCEPT ![k] = c],
               c.thread \in {"run", "write"}, c.outcome = "open",
               c.thread = "write" => c.ready # {} /\ c.sent[turn(c)] > c.relayed[turn(c)],
               \A r \in Sides : c.relayed[r] <= c.sent[r],
               \A r \in c.ready : r \in c.golden /\ (c.sent[r] > c.relayed[r] \/ r \in c.fin),
               \A r \in Sides \ c.golden : r \in c.fin /\ c.relayed[r] = c.sent[r]
        PROVE  ProxyInv'
    <2>1. proxy'[k] = c
      BY <1>0, <1>3 DEF VmeTypeOK
    <2>2. EntryExact(k)'
      BY <1>0, <1>1, <1>3, <2>1 DEF EntryExact, Live
    <2>3. Uncut(k)'
      BY <1>3, <2>1 DEF Uncut, Readable, HasData, Turn
    <2> QED BY <1>0, <1>1, <1>3, <2>2, <2>3, OneConnection DEF VmeTypeOK
  <1>4. /\ \A r \in proxy[k].ready : r \in proxy[k].golden /\ Readable(k, r)
        /\ \A r \in Sides \ proxy[k].golden :
            r \in proxy[k].fin /\ proxy[k].relayed[r] = proxy[k].sent[r]
        /\ \A r \in Sides : proxy[k].relayed[r] <= proxy[k].sent[r]
        /\ proxy[k].outcome = "open"
        /\ proxy[k].thread = "write" => proxy[k].ready # {} /\ HasData(k)
    BY <1>0, <1>1 DEF Uncut
  <1>5. CASE Select(k)
    <2> DEFINE R == {r \in proxy[k].golden : Readable(k, r)}
               c == [proxy[k] EXCEPT !.ready = R]
    <2>1. c \in Open
      BY <1>1 DEF Open
    <2>2. proxy' = [proxy EXCEPT ![k] = c] /\ proxy[k].thread = "run"
      BY <1>5 DEF Select
    <2>3. /\ c.ready = R /\ c.golden = proxy[k].golden /\ c.sent = proxy[k].sent
          /\ c.relayed = proxy[k].relayed /\ c.fin = proxy[k].fin
          /\ c.thread = proxy[k].thread /\ c.outcome = proxy[k].outcome
      BY <1>1 DEF Open
    <2> HIDE DEF c
    <2>4. \A r \in Sides : c.relayed[r] <= c.sent[r]
      BY <1>4, <2>3
    <2>5. \A r \in c.ready : r \in c.golden /\ (c.sent[r] > c.relayed[r] \/ r \in c.fin)
      BY <1>4, <2>3 DEF Readable
    <2>6. \A r \in Sides \ c.golden : r \in c.fin /\ c.relayed[r] = c.sent[r]
      BY <1>4, <2>3
    <2> QED BY <1>3, <1>4, <2>1, <2>2, <2>3, <2>4, <2>5, <2>6
  <1>6. CASE ReadBlock(k)
    <2> DEFINE c == [proxy[k] EXCEPT !.thread = "write"]
    <2>1. c \in Open
      BY <1>1 DEF Open
    <2>2. proxy' = [proxy EXCEPT ![k] = c] /\ proxy[k].ready # {} /\ HasData(k)
      BY <1>6 DEF ReadBlock, Reads
    <2>3. /\ c.ready = proxy[k].ready /\ c.golden = proxy[k].golden /\ c.sent = proxy[k].sent
          /\ c.relayed = proxy[k].relayed /\ c.fin = proxy[k].fin
          /\ c.thread = "write" /\ c.outcome = proxy[k].outcome
      BY <1>1 DEF Open
    <2> HIDE DEF c
    <2>4. \A r \in Sides : c.relayed[r] <= c.sent[r]
      BY <1>4, <2>3
    <2>5. \A r \in c.ready : r \in c.golden /\ (c.sent[r] > c.relayed[r] \/ r \in c.fin)
      BY <1>4, <2>3 DEF Readable
    <2>6. \A r \in Sides \ c.golden : r \in c.fin /\ c.relayed[r] = c.sent[r]
      BY <1>4, <2>3
    <2>7. c.ready # {} /\ c.sent[turn(c)] > c.relayed[turn(c)]
      BY <2>2, <2>3 DEF HasData, Turn
    <2> HIDE DEF turn
    <2> QED BY <1>3, <1>4, <2>1, <2>2, <2>3, <2>4, <2>5, <2>6, <2>7
  <1>7. CASE WriteBlock(k)
    <2> DEFINE moved == [proxy[k].relayed EXCEPT ![Turn(k)] = proxy[k].relayed[Turn(k)] + 1]
               c == [proxy[k] EXCEPT !.thread = "run", !.relayed = moved,
                                     !.ready = proxy[k].ready \ {Turn(k)}]
    <2>1. moved \in [Sides -> Nat] /\ proxy[k].ready \ {Turn(k)} \in SUBSET Sides
      BY <1>1, <1>2 DEF Open
    <2>2. c \in Open
      <3> HIDE DEF moved
      <3> QED BY <1>1, <2>1 DEF Open
    <2>3. proxy' = [proxy EXCEPT ![k] = c] /\ HasData(k)
      BY <1>4, <1>7 DEF WriteBlock
    <2>4. /\ c.ready = proxy[k].ready \ {Turn(k)} /\ c.golden = proxy[k].golden
          /\ c.sent = proxy[k].sent /\ c.fin = proxy[k].fin /\ c.relayed = moved
          /\ c.thread = "run" /\ c.outcome = proxy[k].outcome
      BY <1>1 DEF Open
    <2>5. \A r \in Sides \ {Turn(k)} : moved[r] = proxy[k].relayed[r]
      BY <1>1, <1>2 DEF Open
    <2>6. /\ proxy[k].sent[Turn(k)] # proxy[k].relayed[Turn(k)]
          /\ moved[Turn(k)] <= proxy[k].sent[Turn(k)]
      BY <1>1, <1>2, <2>3 DEF HasData, Open
    <2>7. proxy[k].ready \subseteq Sides
      BY <1>1 DEF Open
    <2> HIDE DEF c, moved
    <2>8. \A r \in Sides : c.relayed[r] <= c.sent[r]
      BY <1>4, <2>4, <2>5, <2>6, <2>7
    <2>9. \A r \in c.ready : r \in c.golden /\ (c.sent[r] > c.relayed[r] \/ r \in c.fin)
      BY <1>4, <2>4, <2>5, <2>6, <2>7 DEF Readable
    <2>10. \A r \in Sides \ c.golden : r \in c.fin /\ c.relayed[r] = c.sent[r]
      BY <1>4, <2>4, <2>5, <2>6, <2>7
    <2> QED BY <1>3, <1>4, <2>2, <2>3, <2>4, <2>8, <2>9, <2>10
  <1>8. CASE PassEnd(k)
    <2> DEFINE c == [proxy[k] EXCEPT !.golden = @ \ {Turn(k)}, !.ready = @ \ {Turn(k)}]
    <2>1. c \in Open
      BY <1>1, <1>2 DEF Open
    <2>2. proxy' = [proxy EXCEPT ![k] = c] /\ proxy[k].thread = "run"
      BY <1>8 DEF PassEnd, Reads
    <2>3. /\ c.ready = proxy[k].ready \ {Turn(k)} /\ c.golden = proxy[k].golden \ {Turn(k)}
          /\ c.sent = proxy[k].sent /\ c.fin = proxy[k].fin /\ c.relayed = proxy[k].relayed
          /\ c.thread = proxy[k].thread /\ c.outcome = proxy[k].outcome
      BY <1>1 DEF Open
    <2>4. Turn(k) \in proxy[k].ready /\ ~HasData(k)
      BY <1>2, <1>8 DEF PassEnd, Reads
    <2>5. Turn(k) \in proxy[k].fin
      BY <1>4, <2>4 DEF Readable, HasData
    <2>6. proxy[k].sent[Turn(k)] = proxy[k].relayed[Turn(k)]
      <3>1. proxy[k].sent[Turn(k)] \in Nat /\ proxy[k].relayed[Turn(k)] \in Nat
        BY <1>1, <1>2 DEF Open
      <3> QED BY <1>2, <1>4, <2>4, <3>1 DEF HasData
    <2> HIDE DEF c
    <2>7. \A r \in Sides : c.relayed[r] <= c.sent[r]
      BY <1>4, <2>3, <2>5, <2>6
    <2>8. \A r \in c.ready : r \in c.golden /\ (c.sent[r] > c.relayed[r] \/ r \in c.fin)
      BY <1>4, <2>3, <2>5, <2>6 DEF Readable
    <2>9. \A r \in Sides \ c.golden : r \in c.fin /\ c.relayed[r] = c.sent[r]
      BY <1>4, <2>3, <2>5, <2>6
    <2> QED BY <1>3, <1>4, <2>1, <2>2, <2>3, <2>7, <2>8, <2>9
  <1>9. CASE Party(k, s)
    <2>1. s \notin proxy[k].fin /\ proxy[k].thread \in {"run", "write"}
      BY <1>1, <1>9 DEF Party, Live
    <2>2. CASE proxy' = [proxy EXCEPT ![k].sent[s] = @ + 1]
      <3> DEFINE c == [proxy[k] EXCEPT !.sent[s] = @ + 1]
      <3>1. c \in Open
        BY <1>1 DEF Open
      <3>2. proxy' = [proxy EXCEPT ![k] = c]
        BY <2>2
      <3>3. /\ c.ready = proxy[k].ready /\ c.golden = proxy[k].golden
            /\ c.fin = proxy[k].fin /\ c.relayed = proxy[k].relayed
            /\ \A r \in Sides \ {s} : c.sent[r] = proxy[k].sent[r]
            /\ c.sent[s] = proxy[k].sent[s] + 1
            /\ c.thread = proxy[k].thread /\ c.outcome = proxy[k].outcome
        BY <1>1 DEF Open
      <3>4. proxy[k].ready \subseteq Sides /\ proxy[k].sent[s] \in Nat /\ proxy[k].relayed[s] \in Nat
        BY <1>1 DEF Open
      <3>5. \A r \in c.ready : r \in c.golden /\ (c.sent[r] > c.relayed[r] \/ r \in c.fin)
        <4> HIDE DEF c
        <4> QED BY <1>4, <3>3, <3>4 DEF Readable
      <3>6. \A r \in Sides \ c.golden : r \in c.fin /\ c.relayed[r] = c.sent[r]
        <4> HIDE DEF c
        <4> QED BY <1>4, <2>1, <3>3
      <3>7. c.thread = "write" => c.ready # {} /\ c.sent[turn(c)] > c.relayed[turn(c)]
        <4>1. turn(c) = Turn(k) /\ Turn(k) \in Sides
          BY <1>2, <3>3 DEF Turn
        <4> HIDE DEF c, turn
        <4> QED BY <1>4, <3>3, <3>4, <4>1 DEF HasData
      <3>8. \A r \in Sides : c.relayed[r] <= c.sent[r]
        <4> HIDE DEF c
        <4> QED BY <1>4, <3>3, <3>4
      <3> HIDE DEF c
      <3> QED BY <1>3, <1>4, <2>1, <3>1, <3>2, <3>3, <3>5, <3>6, <3>7, <3>8
    <2>3. CASE proxy' = [proxy EXCEPT ![k].fin = @ \union {s}]
      <3> DEFINE c == [proxy[k] EXCEPT !.fin = @ \union {s}]
      <3>1. c \in Open
        BY <1>1 DEF Open
      <3>2. proxy' = [proxy EXCEPT ![k] = c]
        BY <2>3
      <3>3. /\ c.ready = proxy[k].ready /\ c.golden = proxy[k].golden /\ c.sent = proxy[k].sent
            /\ c.relayed = proxy[k].relayed /\ c.fin = proxy[k].fin \union {s}
            /\ c.thread = proxy[k].thread /\ c.outcome = proxy[k].outcome
        BY <1>1 DEF Open
      <3> HIDE DEF c
      <3>4. \A r \in Sides : c.relayed[r] <= c.sent[r]
        BY <1>4, <2>1, <3>3
      <3>5. \A r \in c.ready : r \in c.golden /\ (c.sent[r] > c.relayed[r] \/ r \in c.fin)
        BY <1>4, <2>1, <3>3 DEF Readable
      <3>6. \A r \in Sides \ c.golden : r \in c.fin /\ c.relayed[r] = c.sent[r]
        BY <1>4, <2>1, <3>3
      <3>7. c.thread = "write" => c.ready # {} /\ c.sent[turn(c)] > c.relayed[turn(c)]
        BY <1>4, <3>3 DEF HasData, Turn
      <3> HIDE DEF turn
      <3> QED BY <1>3, <1>4, <2>1, <3>1, <3>2, <3>3, <3>4, <3>5, <3>6, <3>7
    <2> QED BY <1>9, <2>2, <2>3 DEF Party
  <1> QED BY <1>5, <1>6, <1>7, <1>8, <1>9

\* The end of a thread: the entry is removed before the addresses are free, or
\* it is left behind.
LEMMA EndStep ==
    ASSUME ProxyInv, NEW k \in Keys,
           \/ LogPanics(k) \/ ProxyEnds(k) \/ ProxyFails(k)
           \/ Remove(k) \/ DropConnection(k)
    PROVE  ProxyInv'
  <1>0. VmeTypeOK /\ EntryExact(k) /\ Uncut(k)
    BY ProxyParts
  <1>1. ASSUME NEW c \in Open \union Closing, proxy' = [proxy EXCEPT ![k] = c],
               connections' \subseteq Keys, leaked' \subseteq Keys,
               connections' \ {k} = connections \ {k}, leaked' \ {k} = leaked \ {k},
               c.thread \notin {"run", "write"},
               k \in connections' <=> c.thread = "ended" \/ k \in leaked',
               c.thread = "ended" => k \notin leaked',
               c.outcome \in {"open", "ok"} =>
                   \A s \in Sides \ c.golden : s \in c.fin /\ c.relayed[s] = c.sent[s]
        PROVE  ProxyInv'
    <2>1. proxy'[k] = c
      BY <1>0, <1>1 DEF VmeTypeOK
    <2>2. EntryExact(k)'
      BY <1>1, <2>1 DEF EntryExact
    <2>3. Uncut(k)'
      BY <1>1, <2>1 DEF Uncut, Live
    <2> QED BY <1>1, <2>2, <2>3, OneConnection
  <1>2. CASE LogPanics(k)
    <2>1. Broken("drop") \in Closing /\ Broken("drop").thread = "drop"
          /\ Broken("drop").outcome = "failed"
      BY DEF Broken, Closing
    <2>2. /\ proxy' = [proxy EXCEPT ![k] = Broken("drop")] /\ UNCHANGED connections
          /\ leaked' = leaked \union {k} /\ proxy[k].thread = "run"
      BY <1>2 DEF LogPanics, Reads, tables
    <2>3. k \in connections
      BY <1>0, <2>2 DEF EntryExact
    <2> QED BY <1>0, <1>1, <2>1, <2>2, <2>3 DEF VmeTypeOK
  <1>3. CASE ProxyFails(k)
    <2>1. Broken("ended") \in Closing /\ Broken("ended").thread = "ended"
          /\ Broken("ended").outcome = "failed"
      BY DEF Broken, Closing
    <2>2. /\ proxy' = [proxy EXCEPT ![k] = Broken("ended")] /\ UNCHANGED <<connections, leaked>>
          /\ proxy[k].thread \in {"run", "write"}
      BY <1>3 DEF ProxyFails, Live, tables
    <2>3. k \in connections /\ k \notin leaked
      BY <1>0, <2>2 DEF EntryExact
    <2> QED BY <1>0, <1>1, <2>1, <2>2, <2>3 DEF VmeTypeOK
  <1>4. CASE ProxyEnds(k)
    <2> DEFINE c == [proxy[k] EXCEPT !.thread = "ended", !.outcome = "ok"]
    <2>1. /\ proxy' = [proxy EXCEPT ![k] = c] /\ UNCHANGED <<connections, leaked>>
          /\ proxy[k].thread = "run"
      BY <1>4 DEF ProxyEnds, tables
    <2>2. proxy[k] \in Open /\ k \in connections /\ k \notin leaked
      BY <1>0, <2>1 DEF VmeTypeOK, Closing, EntryExact
    <2>3. c \in Open
      BY <2>2 DEF Open
    <2>4. /\ c.golden = proxy[k].golden /\ c.sent = proxy[k].sent /\ c.fin = proxy[k].fin
          /\ c.relayed = proxy[k].relayed /\ c.thread = "ended"
      BY <2>2 DEF Open
    <2>5. \A s \in Sides \ proxy[k].golden :
            s \in proxy[k].fin /\ proxy[k].relayed[s] = proxy[k].sent[s]
      BY <1>0, <2>2 DEF Uncut, Open
    <2> HIDE DEF c
    <2> QED BY <1>0, <1>1, <2>1, <2>2, <2>3, <2>4, <2>5 DEF VmeTypeOK
  <1>5. CASE Remove(k)
    <2> DEFINE c == [proxy[k] EXCEPT !.thread = "drop"]
    <2>1. proxy' = [proxy EXCEPT ![k] = c] /\ proxy[k].thread = "ended"
      BY <1>5 DEF Remove
    <2>2. c \in Open \union Closing /\ c.thread = "drop" /\ c.outcome = proxy[k].outcome
      BY <1>0, <2>1 DEF VmeTypeOK, Open, Closing
    <2>3. k \in connections' <=> k \in leaked'
      BY <1>0, <1>5 DEF Remove, EntryExact
    <2>4. /\ connections' \subseteq Keys /\ leaked' \subseteq Keys
          /\ connections' \ {k} = connections \ {k} /\ leaked' \ {k} = leaked \ {k}
      BY <1>0, <1>5 DEF Remove, VmeTypeOK
    <2>5. ASSUME proxy[k].outcome \in {"open", "ok"}
          PROVE  \A s \in Sides \ c.golden : s \in c.fin /\ c.relayed[s] = c.sent[s]
      <3>1. proxy[k] \in Open
        BY <1>0, <2>5 DEF VmeTypeOK, Closing
      <3>2. /\ c.golden = proxy[k].golden /\ c.sent = proxy[k].sent /\ c.fin = proxy[k].fin
            /\ c.relayed = proxy[k].relayed
        BY <3>1 DEF Open
      <3> HIDE DEF c
      <3> QED BY <1>0, <2>5, <3>2 DEF Uncut
    <2> HIDE DEF c
    <2> QED BY <1>1, <2>1, <2>2, <2>3, <2>4, <2>5
  <1>6. CASE DropConnection(k)
    <2>1. NoSocket \in Closing /\ NoSocket.thread = "none" /\ NoSocket.outcome = "none"
      BY DEF NoSocket, Closing
    <2>2. proxy' = [proxy EXCEPT ![k] = NoSocket] /\ UNCHANGED <<connections, leaked>>
      BY <1>6 DEF DropConnection, tables
    <2>3. k \in connections <=> k \in leaked
      BY <1>0, <1>6 DEF DropConnection, EntryExact
    <2> QED BY <1>0, <1>1, <2>1, <2>2, <2>3 DEF VmeTypeOK
  <1> QED BY <1>2, <1>3, <1>4, <1>5, <1>6

LEMMA ProxyStepInv == ProxyInv /\ [Next]_vars => ProxyInv'
  <1> SUFFICES ASSUME ProxyInv, [Next]_vars PROVE ProxyInv'
    OBVIOUS
  <1>1. CASE UNCHANGED <<connections, proxy, leaked>>
    BY <1>1 DEF ProxyInv, VmeTypeOK, ConnectionsExact, LeakedInv, ReadyInv, WritingInv, NothingCutOff,
                Live, Readable, HasData, Turn
  <1>2. ASSUME NEW h \in Handlers, HandlerStep(h) \/ \E req \in Request : ReadRequest(h, req)
        PROVE  ProxyInv'
    BY <1>1, <1>2
       DEF HandlerStep, Connect, Bind, Lookup, Lock, InfoConnection, Close, ReadRequest, tables
  <1>3. ASSUME NEW h \in Handlers, NEW k \in Keys, EnclaveConnects(h, k) \/ RemoteConnects(h, k)
        PROVE  ProxyInv'
    <2>1. CASE AddConnection(h, k)
      BY <2>1, AddStep
    <2> QED BY <1>1, <1>3, <2>1 DEF EnclaveConnects, RemoteConnects, tables
  <1>4. ASSUME NEW k \in Keys,
               ProxyStep(k) \/ WriteBlock(k) \/ ProxyFails(k) \/ \E s \in Sides : Party(k, s)
        PROVE  ProxyInv'
    <2>1. "remote" \in Sides
      BY DEF Sides
    <2> QED BY <1>4, <2>1, CopyStep, EndStep DEF ProxyStep
  <1> QED BY <1>1, <1>2, <1>3, <1>4 DEF Next, vars, tables

\* The table has an entry exactly for the connections that have a thread and for
\* those left behind by a thread that did not start, panicked in its log or found
\* the table poisoned, although addresses are used again at once (lib.rs:344-355);
\* for every number of requests and connections at a time.
THEOREM TableExact == Spec => []ConnectionsExact
  <1>1. ProxyInv => ConnectionsExact
    BY DEF ProxyInv
  <1> QED BY <1>1, ProxyInit, ProxyStepInv, PTL DEF Spec

\* No direction of a connection ends before its data were passed on, and none
\* ends because the other did (lib.rs:132-153); a thread that leaves its loop
\* without an error has passed on everything.  For every amount of data.
THEOREM DirectionsComplete == Spec => []NothingCutOff
  <1>1. ProxyInv => NothingCutOff
    BY DEF ProxyInv
  <1> QED BY <1>1, ProxyInit, ProxyStepInv, PTL DEF Spec
=============================================================================
