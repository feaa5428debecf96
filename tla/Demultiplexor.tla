---------------------------- MODULE Demultiplexor ---------------------------
(***************************************************************************)
(* BMS/proj2: a transport stream read packet by packet, and the share of   *)
(* it that each program has.  A packet has its pid, the flags transport    *)
(* error and payload start, and the table it carries: the entries of PAT   *)
(* and PMT, or the number of a piece of the SDT, which takes several       *)
(* packets.                                                                *)
(***************************************************************************)
EXTENDS Integers, Sequences, FiniteSets, SequencesExt, FiniteSetsExt

CONSTANTS Packets,          \* name |-> [pid, error, start, table, entries, program, piece]
          MaxPackets,       \* how many of them the file holds at most: a bound
          Services,         \* the programs that the SDT names, in its order
          Pieces            \* how many packets the SDT takes

TS_PID_PAT == 0
TS_PID_NIT == 16
TS_PID_SDT == 17
NULL_PID   == 8191

VARIABLES stream,           \* the names of the packets read, each once at most
          packetsCounter, packets,
          PAT, NITPid, analyzedPAT, analyzedNIT, analyzedSDT,
          newSDT, sdtData,  \* the pieces collected so far
          programElementary,
          programs, garbled,   \* what the SDT gave; whether its pieces were not in their order
          info              \* what printInfo writes, or nothing yet

demuxVars == <<stream, packetsCounter, packets, PAT, NITPid, analyzedPAT, analyzedNIT,
               analyzedSDT, newSDT, sdtData, programElementary, programs, garbled, info>>

Pids        == {Packets[p].pid : p \in DOMAIN Packets}
AllPids     == Pids \cup UNION {{e[2] : e \in Packets[p].entries} : p \in DOMAIN Packets}
AllPrograms == ToSet(Services) \cup
               UNION {{e[1] : e \in Packets[p].entries} : p \in DOMAIN Packets}

DemuxInit == /\ stream = <<>> /\ packets = 0 /\ packetsCounter = [p \in AllPids |-> 0]
             /\ PAT = {} /\ NITPid = TS_PID_NIT
             /\ analyzedPAT = FALSE /\ analyzedNIT = FALSE /\ analyzedSDT = FALSE
             /\ newSDT = FALSE /\ sdtData = <<>> /\ programs = <<>> /\ garbled = FALSE
             /\ programElementary = [n \in AllPrograms |-> {}] /\ info = <<>>

IsPMTPacket(pid) == pid # NITPid /\ \E e \in PAT : e[2] = pid

\* What TStream::read does not look into.  A mutant looks into packets with errors.
NullOnly(k) == k.pid = NULL_PID
Skipped(k)  == k.error \/ k.pid = NULL_PID

\* The table that a packet is taken for, and the one that is read from it: the SDT alone
\* is not asked for its table id.
TakenFor(k) == IF Skipped(k) THEN "none"
               ELSE IF k.pid = TS_PID_PAT /\ ~analyzedPAT THEN "PAT"
               ELSE IF k.pid = NITPid /\ ~analyzedNIT THEN "NIT"
               ELSE IF k.pid = TS_PID_SDT /\ ~analyzedSDT THEN "SDT"
               ELSE IF analyzedPAT /\ IsPMTPacket(k.pid) THEN "PMT" ELSE "none"
Reads(k, table) == TakenFor(k) = table /\ (k.table = table \/ table = "SDT")

\* The entries, and what the checksum behind them looks like, which is read as one more:
\* it is among the entries here.
ParsePAT(k) ==
  /\ Reads(k, "PAT") /\ analyzedPAT' = TRUE /\ PAT' = k.entries
  /\ NITPid' = IF \E e \in k.entries : e[1] = 0
               THEN (CHOOSE e \in k.entries : e[1] = 0)[2] ELSE NITPid
  /\ UNCHANGED <<analyzedNIT, analyzedSDT, newSDT, sdtData, programElementary, programs, garbled>>

ParseNIT(k) ==
  /\ Reads(k, "NIT") /\ analyzedNIT' = TRUE
  /\ UNCHANGED <<PAT, NITPid, analyzedPAT, analyzedSDT, newSDT, sdtData, programElementary,
                 programs, garbled>>

\* What parseServiceDescriptor may make of the pieces: if they are not those of the SDT
\* in their order it reads names and lengths anywhere, and may find a program or none.
ProgramsOf(pieces) == IF pieces = [n \in 1..Pieces |-> n] THEN {Services}
                      ELSE {<<>>, <<Head(Services)>>}

\* The pieces are collected, whatever they begin with, until a start comes for the second
\* time; the packet with that is not among them.
ParseSDT(k) ==
  /\ Reads(k, "SDT") /\ newSDT' = (newSDT \/ k.start)
  /\ \/ /\ ~(k.start /\ newSDT) /\ sdtData' = Append(sdtData, k.piece)
        /\ UNCHANGED <<analyzedSDT, programs, garbled>>
     \/ /\ k.start /\ newSDT /\ analyzedSDT' = TRUE /\ UNCHANGED sdtData
        /\ garbled' = (sdtData # [n \in 1..Pieces |-> n])
        /\ programs' \in ProgramsOf(sdtData)
  /\ UNCHANGED <<PAT, NITPid, analyzedPAT, analyzedNIT, programElementary>>

ParsePMT(k) ==
  /\ Reads(k, "PMT")
  /\ programElementary' = [programElementary EXCEPT ![k.program] =
                             @ \cup ({e[2] : e \in k.entries} \ {NULL_PID})]
  /\ UNCHANGED <<PAT, NITPid, analyzedPAT, analyzedNIT, analyzedSDT, newSDT, sdtData,
                 programs, garbled>>

Ignore(k) ==
  /\ \A table \in {"PAT", "NIT", "SDT", "PMT"} : ~Reads(k, table)
  /\ UNCHANGED <<PAT, NITPid, analyzedPAT, analyzedNIT, analyzedSDT, newSDT, sdtData,
                 programElementary, programs, garbled>>

\* One turn of TStream::read; every packet is counted.
Packet(name) ==
  LET k == Packets[name]
  IN /\ info = <<>> /\ name \notin ToSet(stream) /\ Len(stream) < MaxPackets
     /\ stream' = Append(stream, name) /\ packets' = packets + 1
     /\ packetsCounter' = [packetsCounter EXCEPT ![k.pid] = @ + 1]
     /\ ParsePAT(k) \/ ParseNIT(k) \/ ParseSDT(k) \/ ParsePMT(k) \/ Ignore(k)
     /\ UNCHANGED info

\* bindMaps and printInfo, at the end of the file.  Pids of which no packet came are
\* erased; then the packets of the streams of a program are added to those of its table,
\* in the counter itself.
PidOf(n)     == LET e == {x \in PAT : x[1] = n} IN IF e = {} THEN 0 ELSE (CHOOSE x \in e : TRUE)[2]
Known(n)     == {e \in programElementary[n] : packetsCounter[e] > 0}
Added(cnt, n) == [cnt EXCEPT ![PidOf(n)] = @ + MapThenSumSet(LAMBDA e : cnt[e], Known(n))]
BindMaps ==
  /\ info = <<>>
  /\ LET upTo(k) == FoldLeft(Added, packetsCounter, SubSeq(programs, 1, k))
         shares  == {[pid |-> PidOf(programs[k]), program |-> programs[k],
                      count |-> upTo(k)[PidOf(programs[k])], of |-> packets] : k \in DOMAIN programs}
     IN info' = <<SetToSortSeq(shares, LAMBDA a, b : a.pid < b.pid)>>
  /\ UNCHANGED <<stream, packetsCounter, packets, PAT, NITPid, analyzedPAT, analyzedNIT,
                 analyzedSDT, newSDT, sdtData, programElementary, programs, garbled>>

DemuxNext == \/ \E name \in DOMAIN Packets : Packet(name)
             \/ BindMaps
             \/ info # <<>> /\ UNCHANGED demuxVars
-----------------------------------------------------------------------------
(* What a reader of the whole file would say. *)

Good(k, table) == LET p == Packets[stream[k]]
                  IN ~p.error /\ p.table = table
Count(pid)     == Cardinality({k \in DOMAIN stream : Packets[stream[k]].pid = pid})
Elementary(n)  ==
  UNION {{e[2] : e \in Packets[stream[k]].entries} :
           k \in {k \in DOMAIN stream : /\ Good(k, "PMT") /\ Packets[stream[k]].program = n
                                       /\ \E b \in 1..k - 1 : Good(b, "PAT")}}

\* The starts of the SDT, and its pieces from the first packet of it on.
SdtPlaces == {k \in DOMAIN stream : Good(k, "SDT")}
SdtWhole  == \E second \in SdtPlaces :
               /\ Packets[stream[second]].start
               /\ LET before == {k \in SdtPlaces : k < second}
                  IN /\ Cardinality(before) = Pieces
                     /\ \A k \in before : Packets[stream[k]].piece =
                                           Cardinality({b \in before : b <= k})

\* TStream.cpp, Demultiplexor.cpp: the programs are known exactly if the SDT has come
\* whole, from its start to the next one; then each is written once, in the order of the
\* pids, with the packets of its table and of the streams that were announced after the
\* PAT, damaged ones included.
StreamsAreCounted ==
  info # <<>> /\ analyzedPAT =>
    /\ (info[1] # <<>> /\ ~garbled) = SdtWhole
    /\ info[1] # <<>> /\ ~garbled =>
         /\ {s.program : s \in ToSet(info[1])} = ToSet(Services)
         /\ Len(info[1]) = Len(Services)
         /\ \A j, k \in DOMAIN info[1] : j < k => info[1][j].pid <= info[1][k].pid
         /\ \A s \in ToSet(info[1]) :
              s.count = Count(s.pid) + MapThenSumSet(Count, Elementary(s.program))
=============================================================================
