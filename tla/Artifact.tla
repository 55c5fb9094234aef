------------------------------- MODULE Artifact -------------------------------
(***************************************************************************)
(* The inspection of a model artifact, src/planning/artifact.rs: a         *)
(* safetensors file, or the shards an index names, told by their headers   *)
(* alone while another program may write to them.                          *)
(*                                                                         *)
(* A shard is what its header says and how many payload bytes follow; the  *)
(* index its length, the total and the weight map, which are read one      *)
(* after the other.  Either is under an inode and the time of its last     *)
(* change, and read a second time, in one step, before it is believed.  A  *)
(* header is a sequence of entries; strings are names that are sound or    *)
(* not, and the limits on lengths are left out.                            *)
(***************************************************************************)
EXTENDS Integers, Sequences, SequencesExt, FiniteSets

CONSTANTS Names,      \* tensor names the safety contract allows
          Metadata,   \* the key of the metadata entry
          Shards,     \* names of safetensors files
          Index,      \* the name of the index
          Layouts,    \* the directories to be inspected, see Init
          Rewrites,   \* what a writer may put in place of a shard's contents
          IndexRewrites, \* and of the index's
          MaxTensors, \* MAX_TENSORS
          MaxShards,  \* MAX_SHARDS
          MaxRank,    \* MAX_TENSOR_RANK
          MaxWord,    \* the largest u64
          MaxWrites,  \* bound on the writes
          None

ASSUME ArtifactAssumption ==
  /\ {MaxTensors, MaxShards, MaxRank, MaxWord, MaxWrites} \subseteq Nat
  /\ Metadata \notin Names /\ Index \notin Shards

VARIABLES
  disk,    \* name -> file, None where there is no regular file
  extra,   \* whether there is a second index
  pc,      \* resolve, index, body, check, next, read, verify or done
  handle,  \* the open file, as it is by now
  opened,  \* as it was when it was opened
  seen,    \* the contents that were read
  index,   \* None, or the contents of the index by which the shards are told
  todo,    \* shards still to be scanned
  remaining, \* the part of the weight map no shard has accounted for
  scans,   \* shard -> what its scan returned
  report,  \* the report, None while there is none and if it is refused
  was,     \* every contents each name had while it was inspected
  writes

vars == <<disk, extra, pc, handle, opened, seen, index, todo, remaining, scans, report, was, writes>>
world == <<disk, extra, was, writes>>

-----------------------------------------------------------------------------
\* checked_mul and checked_add, None when they overflow.
Word(n) == IF n > MaxWord THEN None ELSE n
Mul(a, b) == IF a = None \/ b = None THEN None ELSE Word(a * b)
Add(a, b) == IF a = None \/ b = None THEN None ELSE Word(a + b)
Total(f(_), s) == FoldLeft(LAMBDA sum, x : Add(sum, f(x)), 0, s)

\* BoundedShape: the product is checked factor by factor.
Elements(shape) == IF Len(shape) > MaxRank THEN None ELSE FoldLeft(Mul, 1, shape)

\* The tensors of a header: the entries but the metadata.
Tensors(header) == SelectSeq(header, LAMBDA e : e.name # Metadata)

\* SafetensorsHeader: no key twice, every key sound, every shape countable.
HeaderParses(header) ==
  /\ \A i, j \in DOMAIN header : header[i].name = header[j].name => i = j
  /\ Len(Tensors(header)) <= MaxTensors
  /\ \A i \in DOMAIN header :
       /\ header[i].name \in Names \cup {Metadata}
       /\ header[i].name # Metadata => Elements(header[i].shape) # None

\* The offsets lie in the payload and are as long as shape and dtype say.
DescriptorValid(t, payload) ==
  LET bits == Mul(Elements(t.shape), t.bits)
  IN  /\ t.start <= t.end /\ t.end <= payload
      /\ bits # None /\ bits % 8 = 0 /\ bits \div 8 = t.end - t.start

\* By start, then end; the name breaks ties of empty tensors.
Sorted(tensors) ==
  SortSeq(tensors, LAMBDA s, t : s.start < t.start \/ (s.start = t.start /\ s.end < t.end))

\* The cursor over the sorted tensors meets each one's start, and the end.
Complete(tensors, payload) ==
  LET sorted == Sorted(tensors)
  IN  /\ \A i \in DOMAIN sorted : sorted[i].start = IF i = 1 THEN 0 ELSE sorted[i - 1].end
      /\ payload = IF sorted = <<>> THEN 0 ELSE Last(sorted).end

\* parse_safetensors_header and validate_tensor_descriptors
Valid(header, payload) ==
  LET tensors == Tensors(header)
  IN  /\ HeaderParses(header)
      /\ \A i \in DOMAIN tensors : DescriptorValid(tensors[i], payload)
      /\ Complete(tensors, payload)

\* ReportAccumulator: the sums over all scans, by dtype too.
Accumulated(scanned) ==
  LET tensors == FoldLeft(LAMBDA all, s : all \o scanned[s], <<>>, SetToSeq(DOMAIN scanned))
      sums(some) == [count |-> Len(some),
                     elements |-> Total(LAMBDA t : Elements(t.shape), some),
                     bytes |-> Total(LAMBDA t : t.end - t.start, some)]
  IN  [files |-> Cardinality(DOMAIN scanned), all |-> sums(tensors),
       dtypes |-> [b \in {tensors[i].bits : i \in DOMAIN tensors} |->
                     sums(SelectSeq(tensors, LAMBDA t : t.bits = b))]]

-----------------------------------------------------------------------------
Files == Shards \cup {Index}

Init ==
  /\ \E l \in Layouts : disk = l.disk /\ extra = l.extra
  /\ pc = "resolve" /\ handle = None /\ opened = None /\ seen = None
  /\ index = None /\ todo = {} /\ remaining = <<>> /\ scans = <<>> /\ report = None
  /\ was = [f \in Files |-> IF disk[f] = None THEN {} ELSE {disk[f].contents}]
  /\ writes = 0

Closed == handle' = None /\ opened' = None /\ seen' = None

Reject ==
  /\ pc' = "done" /\ report' = None /\ Closed
  /\ UNCHANGED <<index, todo, remaining, scans>>

\* open_regular
Opened(f) == handle' = disk[f] /\ opened' = disk[f] /\ UNCHANGED seen

\* resolve_directory: exactly one index, or exactly one file and no index.
Resolve ==
  /\ pc = "resolve"
  /\ LET singles == {s \in Shards : disk[s] # None}
     IN  CASE ~extra /\ disk[Index] # None ->
                /\ Opened(Index) /\ pc' = "index"
                /\ UNCHANGED <<index, todo, remaining, scans, report>>
           [] ~extra /\ disk[Index] = None /\ Cardinality(singles) = 1 ->
                /\ todo' = singles /\ pc' = "next"
                /\ UNCHANGED <<handle, opened, seen, index, remaining, scans, report>>
           [] OTHER -> Reject
  /\ UNCHANGED world

\* read_bounded_regular: what it has read is as long as the file was.
ReadIndex ==
  /\ pc = "index"
  /\ seen' = [opened.contents EXCEPT !.total = handle.contents.total]
  /\ pc' = "body"
  /\ UNCHANGED <<handle, opened, index, todo, remaining, scans, report, world>>

ReadBody ==
  /\ pc = "body"
  /\ IF handle.contents.size = opened.contents.size
     THEN /\ seen' = [seen EXCEPT !.map = handle.contents.map] /\ pc' = "check"
          /\ UNCHANGED <<handle, opened, index, todo, remaining, scans, report>>
     ELSE Reject
  /\ UNCHANGED world

\* SafetensorsIndex and validate_weight_map: sound names of files in range.
Named(map) == {map[n] : n \in DOMAIN map}
IndexParses(map) ==
  /\ Named(map) # {} /\ Named(map) \subseteq Shards /\ Cardinality(Named(map)) <= MaxShards
  /\ DOMAIN map \subseteq Names /\ Cardinality(DOMAIN map) <= MaxTensors

\* Seeded fault: the index is not read again.
SnapshotOfShards ==
  /\ pc # "check" => handle.contents = seen
  /\ handle.stamp = opened.stamp
\* read_exact_match and ensure_file_snapshot_unchanged: the same is read
\* again, and the system says the same of the file.
SameSnapshot == handle.contents = seen /\ handle.stamp = opened.stamp

\* inspect_index, from here on by what was read of the index.
CheckIndex ==
  /\ pc = "check"
  /\ IF SameSnapshot /\ IndexParses(seen.map)
     THEN /\ index' = seen /\ remaining' = seen.map /\ todo' = Named(seen.map)
          /\ pc' = "next" /\ Closed /\ UNCHANGED <<scans, report>>
     ELSE Reject
  /\ UNCHANGED world

\* The first shard that is left.
Open ==
  /\ pc = "next" /\ todo # {}
  /\ \E s \in todo :
       IF disk[s] = None THEN Reject
       ELSE Opened(s) /\ pc' = "read" /\ UNCHANGED <<index, todo, remaining, scans, report>>
  /\ UNCHANGED world

\* scan_safetensors up to the rewind: the length is the one of the opening.
Read ==
  /\ pc = "read"
  /\ IF Valid(handle.contents.header, opened.contents.payload)
     THEN /\ seen' = [opened.contents EXCEPT !.header = handle.contents.header]
          /\ pc' = "verify"
          /\ UNCHANGED <<handle, opened, index, todo, remaining, scans, report>>
     ELSE Reject
  /\ UNCHANGED world

\* inspect_index: every tensor is the index's, and in its shard.
Member(t, s) == t.name \in DOMAIN remaining /\ remaining[t.name] = s

Verify ==
  /\ pc = "verify"
  /\ \E s \in todo :
       /\ s = handle.name
       /\ LET tensors == Tensors(seen.header)
          IN  IF /\ SameSnapshot
                 /\ index # None => \A i \in DOMAIN tensors : Member(tensors[i], s)
              THEN /\ scans' = [x \in DOMAIN scans \cup {s} |-> IF x = s THEN tensors ELSE scans[x]]
                   /\ remaining' = [n \in DOMAIN remaining \ {tensors[i].name : i \in DOMAIN tensors}
                                      |-> remaining[n]]
                   /\ todo' = todo \ {s} /\ pc' = "next" /\ Closed /\ UNCHANGED <<index, report>>
              ELSE Reject
  /\ UNCHANGED world

\* Nothing of the index is left, its total is the sum, and no sum overflows.
Finish ==
  /\ pc = "next" /\ todo = {}
  /\ LET sums == Accumulated(scans)
     IN  IF /\ remaining = <<>> /\ None \notin {sums.all.elements, sums.all.bytes}
            /\ index # None => sums.all.bytes = index.total
         THEN /\ report' = sums /\ pc' = "done"
              /\ UNCHANGED <<handle, opened, seen, index, todo, remaining, scans>>
         ELSE Reject
  /\ UNCHANGED world

\* A file is written over in place, or replaced by another one.
Write(f) ==
  /\ writes < MaxWrites /\ pc # "done" /\ disk[f] # None
  /\ \E contents \in IF f = Index THEN IndexRewrites ELSE Rewrites, inPlace \in BOOLEAN,
        stamp \in {disk[f].stamp, disk[f].stamp + 1} :
       LET new == [name |-> f, contents |-> contents, stamp |-> stamp]
       IN  /\ disk' = [disk EXCEPT ![f] = new]
           /\ handle' = IF inPlace /\ handle = disk[f] THEN new ELSE handle
           /\ was' = [was EXCEPT ![f] = @ \cup {contents}]
  /\ writes' = writes + 1
  /\ UNCHANGED <<extra, pc, opened, seen, index, todo, remaining, scans, report>>

Inspect ==
  Resolve \/ ReadIndex \/ ReadBody \/ CheckIndex \/ Open \/ Read \/ Verify \/ Finish

Next == Inspect \/ \E f \in Files : Write(f)

Spec == Init /\ [][Next]_vars

-----------------------------------------------------------------------------
\* Every byte of the payload is part of exactly one tensor, none of which
\* begins inside another, and each is as long as its shape says.
Tiled(tensors, payload) ==
  /\ \A b \in 0..(payload - 1) :
       Cardinality({i \in DOMAIN tensors : tensors[i].start <= b /\ b < tensors[i].end}) = 1
  /\ \A t \in ToSet(tensors) :
       /\ t.start <= t.end /\ t.end <= payload
       /\ 8 * (t.end - t.start) = t.bits * FoldLeft(LAMBDA x, y : x * y, 1, t.shape)
       /\ ~ \E u \in ToSet(tensors) : u.start < t.start /\ t.start < u.end

\* The shards hold the tensors an index says, and as many bytes.
Agree(said, tensors, payloads) ==
  /\ \A s \in DOMAIN tensors :
       {t.name : t \in ToSet(tensors[s])} = {n \in DOMAIN said.map : said.map[n] = s}
  /\ said.total = FoldLeft(LAMBDA sum, s : sum + payloads[s], 0, SetToSeq(DOMAIN tensors))

\* What is reported was there, byte for byte accounted for, each tensor in the
\* one shard named by an index that was there as a whole; and the sums by
\* dtype are the payload.
Earned ==
  LET sound(s) == {c \in was[s] : Tensors(c.header) = scans[s] /\ Tiled(scans[s], c.payload)}
      payloads == [s \in DOMAIN scans |-> (CHOOSE c \in sound(s) : TRUE).payload]
      byDtype == FoldLeft(LAMBDA sum, b : sum + report.dtypes[b].bytes, 0,
                          SetToSeq(DOMAIN report.dtypes))
  IN  /\ \A s \in DOMAIN scans : sound(s) # {}
      /\ IF was[Index] = {} THEN Cardinality(DOMAIN scans) = 1
         ELSE \E said \in was[Index] : DOMAIN scans = Named(said.map) /\ Agree(said, scans, payloads)
      /\ byDtype = FoldLeft(LAMBDA sum, s : sum + payloads[s], 0, SetToSeq(DOMAIN scans))

\* The directory is one artifact, and no number in it exceeds a word.
WellFormed ==
  LET present == {s \in Shards : disk[s] # None}
      subjects == IF disk[Index] # None THEN Named(disk[Index].contents.map) ELSE present
      tensors == [s \in subjects |-> Tensors(disk[s].contents.header)]
      payloads == [s \in subjects |-> disk[s].contents.payload]
      fits(t) == Mul(Elements(t.shape), t.bits) # None
  IN  /\ ~extra /\ subjects \subseteq present
      /\ \A s \in subjects : /\ HeaderParses(disk[s].contents.header)
                             /\ Tiled(tensors[s], payloads[s])
                             /\ \A t \in ToSet(tensors[s]) : fits(t)
      /\ IF disk[Index] # None THEN Agree(disk[Index].contents, tensors, payloads)
         ELSE Cardinality(subjects) = 1

\* An inspection that reports has earned it, and one of an artifact nobody
\* writes to refuses it only if it is not well formed.
InspectionExact ==
  pc = "done" => IF report # None THEN Earned ELSE writes = 0 => ~WellFormed
=============================================================================
