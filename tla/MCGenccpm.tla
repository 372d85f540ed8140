----------------------------- MODULE MCGenccpm -----------------------------
(* The three parts of GENCCPM.  They share no state that one reads and      *)
(* another writes while it is asked or laid out: each is explored while the *)
(* others are as the program finds them.                                    *)
EXTENDS MemoryPartitions, DiskBuffers, SysImage

\* A memory of 24 paragraphs: ends and sizes that make equal, adjacent (by
\* last = first and by last = first - 1), overlapping, cut and undivided
\* partitions; the system anywhere in it.
MCInputs ==
  {<<f, l, s>> : f \in {0, 8, 9, 13}, l \in {8, 12, 24}, s \in {3, 4, 30}}
MCPlaces == {<<a, b>> \in (0 .. 20) \X (1 .. 25) : b > a}

\* Three drives whose blocks differ; the third has data buffers of its own in
\* the XIOS, the second is not asked about hashing.
MCBlkSize == (0 :> 128) @@ (1 :> 512) @@ (2 :> 256)
MCCsvSize == (0 :> 32) @@ (1 :> 0) @@ (2 :> 8)
MCAlvSize == (0 :> 10) @@ (1 :> 26) @@ (2 :> 10)
MCHashSize == (0 :> 32) @@ (1 :> 64) @@ (2 :> 16)
MCDirCounts == {<<1, 1>>, <<2, 1>>}
MCDatCounts == {<<2, 2>>}

\* Two modules and five RSPs, at least one of each kind; tables that are small,
\* that nearly fill the segment, and that overflow it before and behind a check.
MCModLen == <<3, 5>>
MCRsp ==
  ("DIR" :> [data |-> 22, code |-> 7, ncs |-> 1, mem |-> FALSE]) @@
  ("TMP" :> [data |-> 24, code |-> 9, ncs |-> 2, mem |-> TRUE]) @@
  ("CLOCK" :> [data |-> 0, code |-> 25, ncs |-> 0, mem |-> FALSE]) @@
  ("VOUT" :> [data |-> 21, code |-> 4, ncs |-> -1, mem |-> FALSE]) @@
  ("BAD" :> [data |-> 0, code |-> 30, ncs |-> 0, mem |-> TRUE])

Par(open, qbuf, xios, label, clean) ==
  [mds |-> 7, pds |-> 3, qcbs |-> 2, open |-> open, flags |-> 5, qbuf |-> qbuf,
   xios |-> xios, bufs |-> 40, label |-> label, clean |-> clean]
MCParams == {Par(4, 160, 33, 80, FALSE), Par(0, 32, 0, 75, TRUE), Par(6000, 3000, 700, 96, FALSE),
             Par(4, 160, 65200, 81, FALSE), Par(4, 65000, 33, 81, FALSE)}
MCRooms == {70000, 3000, 1000000}

MCInit == MemInit /\ DiskInit /\ ImageInit
MCNext ==
  \/ MemNext /\ DiskInit /\ ImageInit /\ UNCHANGED <<dvars, ivars>>
  \/ DiskNext /\ MemInit /\ ImageInit /\ UNCHANGED <<mvars, ivars>>
  \/ ImageNext /\ MemInit /\ DiskInit /\ UNCHANGED <<mvars, dvars>>
MCSpec == MCInit /\ [][MCNext]_<<mvars, dvars, ivars>>
=============================================================================
