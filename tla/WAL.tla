--------------------------------- MODULE WAL --------------------------------
(***************************************************************************)
(* The write-ahead log of internal/consensus/wal.go on the file group of   *)
(* internal/libs/autofile/group.go, as a value: the records on disk, where *)
(* each file of the group starts among them, the last file being the head, *)
(* the buffer in front of the head, and the copy that a repair makes.  A   *)
(* record is an end-height marker, a message that consensus received, or   *)
(* what is left of a record when the process stopped while the buffer was  *)
(* being written.  Records of new steps, which a replay skips, and the     *)
(* limit on the size of the group are left out.                            *)
(***************************************************************************)
EXTENDS Integers, Sequences, FiniteSetsExt, SequencesExt

CONSTANT Tears   \* where a record may be cut: in its "body" or its "checksum"

EndHeight(height) == [type |-> "end", height |-> height]
Message(id) == [type |-> "msg", id |-> id]

\* resync: whether a decoder that goes on after it comes upon a record again.
Torn == [type : {"torn"}, cut : Tears, resync : BOOLEAN]

NewWAL == [records |-> <<>>, files |-> <<1>>, buf |-> <<>>, copy |-> <<>>]

head(wal) == SubSeq(wal.records, Last(wal.files), Len(wal.records))
WithHead(wal, records) == [wal EXCEPT !.records = SubSeq(@, 1, Last(wal.files) - 1) \o records]

Write(wal, record) == [wal EXCEPT !.buf = Append(@, record)]

FlushAndSync(wal) == [wal EXCEPT !.records = @ \o wal.buf, !.buf = <<>>]

WriteSync(wal, record) == FlushAndSync(Write(wal, record))

\* The next write creates a new head.
rotateFile(wal) ==
    LET flushed == FlushAndSync(wal)
    IN  [flushed EXCEPT !.files = Append(@, Len(flushed.records) + 1)]

\* OnStart marks an empty head with height 0.
OpenWAL(wal) == IF head(wal) = <<>> THEN WriteSync(wal, EndHeight(0)) ELSE wal

\* What a process that stops leaves of the buffer: it is written out whenever it
\* is full, wherever that cuts a record.
Stopped(wal) ==
    LET left(n, tail) == [wal EXCEPT !.records = @ \o SubSeq(wal.buf, 1, n) \o tail,
                                     !.buf = <<>>]
    IN  {left(n, <<>>) : n \in 0 .. Len(wal.buf)}
        \union {left(n, <<torn>>) : n \in 0 .. Len(wal.buf) - 1, torn \in Torn}

-----------------------------------------------------------------------------
(***************************************************************************)
(* A reader starts at a file and goes on through the later ones.           *)
(***************************************************************************)
Reads(wal, file, k) ==
    /\ wal.files[file] <= k
    /\ \A i \in wal.files[file] .. k - 1 : wal.records[i].type = "torn" => wal.records[i].resync

Markers(wal, file) ==
    {k \in DOMAIN wal.records : wal.records[k].type = "end" /\ Reads(wal, file, k)}

MarkersOf(wal, file, height) == {k \in Markers(wal, file) : wal.records[k].height = height}

\* No older file is read when the last marker seen is of a lower height, unless it
\* is the 0 of an empty head.
EndsSearch(wal, file, height) ==
    /\ Markers(wal, file) # {}
    /\ wal.records[Max(Markers(wal, file))].height \in 1 .. height - 1

\* The last file is searched first.  The position of the marker, or 0.
SearchForEndHeight(wal, height) ==
    LET found == {i \in DOMAIN wal.files :
                      /\ MarkersOf(wal, i, height) # {}
                      /\ \A j \in i + 1 .. Len(wal.files) : ~EndsSearch(wal, j, height)}
    IN  IF found = {} THEN 0 ELSE Min(MarkersOf(wal, Max(found), height))

\* Where decoding fails from position k on, or 0.  An incomplete checksum at the end
\* passes for the end of the log.
CorruptedAfter(wal, k) ==
    LET bad == {i \in k + 1 .. Len(wal.records) :
                    /\ wal.records[i].type = "torn"
                    /\ ~(wal.records[i].cut = "checksum" /\ i = Len(wal.records))}
    IN  IF bad = {} THEN 0 ELSE Min(bad)

\* The messages that are replayed from there before the end or the first error.
Replayed(wal, k) ==
    LET bad  == CorruptedAfter(wal, k)
        msgs == SelectSeq(SubSeq(wal.records, k + 1, IF bad = 0 THEN Len(wal.records) ELSE bad - 1),
                          LAMBDA r : r.type = "msg")
    IN  [i \in DOMAIN msgs |-> msgs[i].id]

\* The head is copied, emptied, and written again up to the first error.
beginRepair(wal) == [WithHead(wal, <<>>) EXCEPT !.copy = head(wal)]

repairWalFile(wal) ==
    LET bad == SelectInSeq(wal.copy, LAMBDA r : r.type = "torn")
    IN  [WithHead(wal, IF bad = 0 THEN wal.copy ELSE SubSeq(wal.copy, 1, bad - 1))
            EXCEPT !.copy = <<>>]

\* What is left when the process stops while the head is being written again.
StoppedInRepair(wal) ==
    {[WithHead(wal, records) EXCEPT !.copy = <<>>] : records \in Prefixes(head(repairWalFile(wal)))}

\* Whether the log holds a cut record, behind which nothing should be written.
IsDamaged(wal) == \E k \in DOMAIN wal.records : wal.records[k].type = "torn"
=============================================================================
