------------------------------ MODULE PackDir -------------------------------
(***************************************************************************)
(* A pack directory beside its source: the repacker that writes it, the    *)
(* verifier, and the launcher (nvmoe run) that calls both and serves.  One *)
(* tool runs at a time; each file it opens is read as it is then.  Between *)
(* two steps of a tool the source's path may be given another file, the    *)
(* tool may be killed, and at rest a byte of the pack may go bad.          *)
(***************************************************************************)
EXTENDS VerifyPack

CONSTANTS
  Files,          \* the files the source's path may hold, as GGUF records
  Later,          \* bound: those of them that may come to it later
  BadOffsets,     \* bound: where in a file a byte may go bad
  MaxFaults       \* bound on kills, replaced sources and bad bytes together

ASSUME PackDirAssumption ==
  /\ DOMAIN Files \subseteq Nat \ {0}
  /\ Later \subseteq DOMAIN Files
  /\ BadOffsets \subseteq Nat
  /\ MaxFaults \in Nat
  /\ \A id \in DOMAIN Files : IsGguf(Files[id]) /\ NamesDiffer(Files[id])

\* The tools can plan what read_gguf and the repacker's checks let through.
Repackable(f) == read_gguf(f) /\ ~Refuses(f)

VARIABLES
  source,         \* which file the path holds
  pack,           \* experts.pack: its bytes
  resident,       \* resident.gguf
  manifest,       \* manifest.json
  tool,           \* where the running tool is, or "idle"
  caller,         \* who called it: "user" or "launcher"
  job,            \* the running repacker's or verifier's own state
  groups, off,    \* plan_pack's loop: the groups so far, and the next offset
  history         \* of the checks below; no code reads it

files == <<source, pack, resident, manifest>>
plan == <<groups, off>>
vars == <<files, tool, caller, job, plan, history>>

NoJob == [info |-> 0, src_f |-> 0, sha |-> NoHash, hash |-> FALSE, next |-> 0, picked |-> {}]

\* honest: nothing has gone wrong since the last repack began.
\* stale: the manifest, if there is one, is of an earlier pack.
\* last: the last verification, if nothing was written since: its verdict, the file whose
\* header it read, the file it took the bytes of, and the groups compared.
Unverified == [verdict |-> "none", info |-> 0, of |-> 0, picked |-> {}]

Init ==
  /\ source \in DOMAIN Files
  /\ pack = <<>> /\ resident = NoGguf /\ manifest = NoManifest
  /\ tool = "idle" /\ caller = "user" /\ job = NoJob
  /\ groups = <<>> /\ off = 0
  /\ history = [honest |-> FALSE, stale |-> FALSE, faults |-> 0, last |-> Unverified]

Info == Files[job.info]

Repacking == tool \in {"plan", "open", "pack", "manifest"}

Exists(file) == file # NoManifest

-----------------------------------------------------------------------------
(* The repacker.                                                           *)

\* A user calls it with or without --no-hash; the launcher only if no manifest exists,
\* whole or torn.
StartRepack(by, hash) ==
  /\ tool = "idle"
  /\ by = "launcher" => hash /\ ~Exists(manifest)
  /\ Repackable(Files[source])
  /\ tool' = "plan" /\ caller' = by
  /\ job' = [NoJob EXCEPT !.info = source, !.hash = hash]
  /\ groups' = <<>> /\ off' = PACK_HEADER_BYTES
  /\ history' = [history EXCEPT !.honest = TRUE, !.last = Unverified]
  /\ UNCHANGED files

\* One turn of plan_pack's loop.
PlanExtent ==
  /\ tool = "plan"
  /\ Len(groups) < NGroups(Info)
  /\ LET g == GroupAt(Info, Len(groups) + 1, off)
     IN  /\ groups' = Append(groups, g)
         /\ off' = off + Layers(Info)[g.layer].group_stride
  /\ UNCHANGED <<files, tool, caller, job, history>>

HashSource ==
  /\ tool = "plan"
  /\ Len(groups) = NGroups(Info)
  /\ tool' = "open"
  /\ job' = [job EXCEPT !.sha = IF job.hash THEN source ELSE NoHash]
  /\ UNCHANGED <<files, caller, plan, history>>

\* The path is opened a third time, and an older pack's extents are gone.
OpenSource ==
  /\ tool = "open"
  /\ tool' = "pack"
  /\ job' = [job EXCEPT !.src_f = source, !.next = 1]
  /\ pack' = PackHeader
  /\ history' = [history EXCEPT !.stale = Exists(manifest)]
  /\ UNCHANGED <<source, resident, manifest, caller, plan>>

\* One turn of write_pack's loop.
WriteExtent ==
  /\ tool = "pack"
  /\ job.next <= Len(groups)
  /\ ExtentCopyable(Info, Files[job.src_f], groups[job.next])
  /\ pack' = pack \o Extent(Info, Files[job.src_f], groups[job.next])
  /\ job' = [job EXCEPT !.next = job.next + 1]
  /\ UNCHANGED <<source, resident, manifest, tool, caller, plan, history>>

PackVersionKvs == <<<<"nvmoe.pack.version", 1>>, <<"nvmoe.pack.manifest", 1>>>>

WriteResident ==
  /\ tool = "pack"
  /\ job.next > Len(groups)
  /\ Copyable(Info, Files[job.src_f], Resident(Info))
  /\ resident' = write_subset_gguf(Info, Files[job.src_f], Resident(Info), PackVersionKvs)
  /\ tool' = "manifest"
  /\ UNCHANGED <<source, pack, manifest, caller, job, plan, history>>

\* The launcher goes on with the verification.
WriteManifest ==
  /\ tool = "manifest"
  /\ manifest' = Manifest(Info, job.sha, groups, off)
  /\ tool' = IF caller = "launcher" THEN "verify" ELSE "idle"
  /\ job' = NoJob
  /\ groups' = <<>> /\ off' = 0
  /\ history' = [history EXCEPT !.stale = FALSE]
  /\ UNCHANGED <<source, pack, resident, caller>>

\* Fault: the killed tool's job is taken up by the next.
StopsKeepingJob ==
  /\ tool' = "idle" /\ caller' = "user"
  /\ groups' = <<>> /\ off' = 0
  /\ UNCHANGED job

Stops ==
  /\ tool' = "idle" /\ caller' = "user" /\ job' = NoJob
  /\ groups' = <<>> /\ off' = 0

\* Fault: what the copy could not get is left out, and the manifest written.
CopyEndsQuietly ==
  /\ tool = "pack"
  /\ IF job.next <= Len(groups)
     THEN ~ExtentCopyable(Info, Files[job.src_f], groups[job.next])
     ELSE ~Copyable(Info, Files[job.src_f], Resident(Info))
  /\ tool' = "manifest"
  /\ UNCHANGED <<files, caller, job, plan, history>>

\* The file opened for the copy ends before the bytes asked for: the tool stops, and the
\* pack keeps what it got of the extent.
CopyEndsEarly ==
  /\ tool = "pack"
  /\ IF job.next <= Len(groups)
     THEN /\ ~ExtentCopyable(Info, Files[job.src_f], groups[job.next])
          /\ pack' = pack \o ExtentCut(Info, Files[job.src_f], groups[job.next])
          /\ UNCHANGED resident
     ELSE /\ ~Copyable(Info, Files[job.src_f], Resident(Info))
          /\ resident' = NoGguf
          /\ UNCHANGED pack
  /\ Stops
  /\ UNCHANGED <<source, manifest, history>>

-----------------------------------------------------------------------------
(* The verifier.                                                           *)

Fails == history' = [history EXCEPT !.last = [Unverified EXCEPT !.verdict = "fail"]]

\* The launcher's verification follows its repack.  A user's may skip the hash, or
\* compare a sample of the extents.
CheckSize(by, quick, picked) ==
  /\ tool = IF by = "launcher" THEN "verify" ELSE "idle"
  /\ IF RightSize(manifest, Files[source])
     THEN /\ tool' = "hash" /\ caller' = by
          /\ job' = [NoJob EXCEPT !.hash = ~quick, !.picked = picked]
          /\ UNCHANGED <<plan, history>>
     ELSE Fails /\ Stops
  /\ UNCHANGED files

CheckHash ==
  /\ tool = "hash"
  /\ IF job.hash => RightHash(manifest, source)
     THEN /\ tool' = "parse"
          /\ UNCHANGED <<caller, job, plan, history>>
     ELSE Fails /\ Stops
  /\ UNCHANGED files

\* The path is opened for the header.
ReadHeaders ==
  /\ tool = "parse"
  /\ IF HeadersRight(manifest, Files[source], resident)
     THEN /\ tool' = "compare"
          /\ job' = [job EXCEPT !.info = source]
          /\ UNCHANGED <<caller, plan, history>>
     ELSE Fails /\ Stops
  /\ UNCHANGED files

\* It is opened again for the bytes.  After a pass the launcher serves; after a failure it
\* stops.
Compare ==
  /\ tool = "compare"
  /\ IF BytesSame(manifest, Info, Files[source], resident, pack, job.picked)
     THEN /\ history' = [history EXCEPT !.last = [verdict |-> "pass", info |-> job.info,
                                                 of |-> source, picked |-> job.picked]]
          /\ tool' = IF caller = "launcher" THEN "serve" ELSE "idle"
          /\ job' = NoJob
          /\ UNCHANGED <<caller, plan>>
     ELSE Fails /\ Stops
  /\ UNCHANGED files

-----------------------------------------------------------------------------
(* The launcher, and the runtime it starts.                                *)

\* ensure_pack finds a manifest: it neither repacks nor verifies.
UseExistingPack ==
  /\ tool = "idle"
  /\ Exists(manifest)
  /\ tool' = "serve" /\ caller' = "launcher"
  /\ UNCHANGED <<files, job, plan, history>>

Serve ==
  /\ tool = "serve"
  /\ RuntimeAccepts(manifest, pack) /\ read_gguf(resident)
  /\ tool' = "serving"
  /\ UNCHANGED <<files, caller, job, plan, history>>

StopServing ==
  /\ tool \in {"serve", "serving"}
  /\ Stops
  /\ UNCHANGED <<files, history>>

-----------------------------------------------------------------------------
(* What goes wrong.                                                        *)

Fault(h) ==
  /\ history.faults < MaxFaults
  /\ history' = [h EXCEPT !.faults = history.faults + 1, !.honest = FALSE]

\* The file at the path is replaced: a tool that has it open keeps the old one.
ReplaceSource ==
  /\ source' \in Later \ {source}
  /\ Fault(history)
  /\ UNCHANGED <<pack, resident, manifest, tool, caller, job, plan>>

\* The repacker is killed: the file it writes keeps some of what was written, and the
\* manifest may be there torn.
KillRepack ==
  /\ Repacking
  /\ pack' \in (IF tool = "pack" THEN Prefixes(pack) \cup {<<>>} ELSE {pack})
  /\ resident' \in (IF tool = "pack" /\ job.next > Len(groups) THEN {resident, NoGguf} ELSE {resident})
  /\ manifest' \in (IF tool = "manifest" THEN {manifest, [whole |-> FALSE, torn |-> TRUE]}
                    ELSE {manifest})
  /\ Fault(history)
  /\ Stops
  /\ UNCHANGED source

KillVerify ==
  /\ tool \in {"verify", "hash", "parse", "compare"}
  /\ Fault(history)
  /\ Stops
  /\ UNCHANGED files

\* A byte of the pack or of a resident tensor goes bad on disk.
BadByte == -1

FlipByte ==
  /\ tool = "idle"
  /\ \E o \in BadOffsets :
       \/ /\ o < Len(pack)
          /\ pack' = [pack EXCEPT ![o + 1] = BadByte]
          /\ UNCHANGED resident
       \/ /\ o < Len(resident.data)
          /\ resident' = [resident EXCEPT !.data[o + 1] = BadByte]
          /\ UNCHANGED pack
  /\ Fault([history EXCEPT !.last = Unverified])
  /\ UNCHANGED <<source, manifest, tool, caller, job, plan>>

-----------------------------------------------------------------------------
Repacker ==
  \/ \E by \in {"user", "launcher"}, hash \in BOOLEAN : StartRepack(by, hash)
  \/ PlanExtent
  \/ HashSource
  \/ OpenSource
  \/ WriteExtent
  \/ WriteResident
  \/ WriteManifest
  \/ CopyEndsEarly

Groups == IF manifest.whole THEN DOMAIN manifest.groups ELSE {}

Verifier ==
  \/ CheckSize("launcher", FALSE, Groups)
  \/ \E quick \in BOOLEAN, picked \in {Groups} \cup {{i} : i \in Groups} :
       CheckSize("user", quick, picked)
  \/ CheckHash
  \/ ReadHeaders
  \/ Compare

Launcher == UseExistingPack \/ Serve \/ StopServing

Faults == ReplaceSource \/ KillRepack \/ KillVerify \/ FlipByte

Next == Repacker \/ Verifier \/ Launcher \/ Faults

Spec == Init /\ [][Next]_vars

-----------------------------------------------------------------------------
(* What must hold.                                                         *)

\* Type invariant: every variable keeps its shape; the job is that of the running tool.
PackTypeOK ==
  /\ source \in DOMAIN Files
  /\ \A i \in DOMAIN pack : pack[i] \in Int
  /\ DOMAIN resident = DOMAIN NoGguf
  /\ manifest.whole \in BOOLEAN
  /\ tool \in {"idle", "plan", "open", "pack", "manifest", "verify", "hash", "parse", "compare",
              "serve", "serving"}
  /\ caller \in {"user", "launcher"}
  /\ DOMAIN job = DOMAIN NoJob
  /\ job.info # 0 <=> Repacking \/ tool = "compare"
  /\ off \in Nat
  /\ history.faults \in 0 .. MaxFaults

\* The plan of the pack is right (repack_gguf.plan_pack), and so is every manifest:
\* extents begin on the alignment a direct read needs, no two overlap, none reaches into
\* the header, or behind the end that the manifest gives for the file.
ExtentEnd(gs, layers, i) == gs[i].offset + layers[gs[i].layer].group_stride

Apart(gs, layers, end) ==
  \A i \in DOMAIN gs :
    /\ gs[i].offset % EXTENT_ALIGN = 0
    /\ gs[i].offset >= PACK_HEADER_BYTES
    /\ ExtentEnd(gs, layers, i) <= end
    /\ \A j \in 1 .. i - 1 : ExtentEnd(gs, layers, j) <= gs[i].offset

ExtentsApart ==
  /\ Repacking => Apart(groups, Layers(Info), off)
  /\ manifest.whole => Apart(manifest.groups, manifest.layers, manifest.pack_file_bytes)

\* The three counts of the pack's bytes agree, each made by other code: where the writer
\* is in the file (its own assertion, repack_gguf:144), where the plan puts the next
\* extent, and the store's size the planner takes for its budget (plan.py:111).
CountsAgree ==
  /\ tool = "pack" => Len(pack) = IF job.next <= Len(groups) THEN groups[job.next].offset ELSE off
  /\ tool = "open" /\ ~PlannerRefuses(Info) => off - PACK_HEADER_BYTES = paged_bytes(Info)

\* A manifest means a finished pack (repack_gguf:257-279 writes it last): whatever
\* stopped a tool, or was copied from, the pack has the length the manifest gives and
\* every extent exported for the I/O bench is inside it.  It does not hold of the
\* manifest an earlier run has left while, or after, a later one was at work.
ManifestMeansPack ==
  manifest.whole /\ ~history.stale =>
    /\ Len(pack) = manifest.pack_file_bytes
    /\ \A e \in ToSet(ExtentTable(manifest)) : InRange(pack, e[1], e[2])
    /\ resident # NoGguf

\* A full verification that passes means as much of what it prints, "repack is lossless"
\* (verify_pack:160), as two openings of one path allow: the runtime, which finds experts
\* in its own way, gets for every expert the manifest counts in every layer, and the
\* resident file has for every other tensor, the bytes that the file opened last has where
\* the header read before puts them.  After a sample, it holds of the extents sampled.
\* Those are the bytes of one model only if both openings found one file; and the verifier
\* never looks at the manifest's types, shapes and number of experts.  If the path held
\* one file from the start of the repack on, both are as they should be.
ResidentLossless(src, src_f) ==
  \A t \in ToSet(Resident(src)) :
    /\ t.name \in TensorNames(resident)
    /\ LET r == Named(resident, t.name)
       IN  /\ [r EXCEPT !.offset = 0] = [t EXCEPT !.offset = 0]
           /\ Range0(resident.data, r.offset, tensor_nbytes(t))
                = Range0(FileBytes(src_f), abs_offset(src, t), tensor_nbytes(t))

PassMeansLossless ==
  LET last == history.last
      src == Files[last.info]
      src_f == Files[last.of]
  IN  last.verdict = "pass" =>
        /\ ResidentLossless(src, src_f)
        /\ \A i \in last.picked :
             FetchesRight(manifest, src, src_f, pack, manifest.groups[i].layer, manifest.groups[i].expert)
        /\ last.picked = DOMAIN manifest.groups => PackLossless(manifest, src, src_f, pack)
        /\ history.honest => last.info = last.of /\ ShapesRight(manifest, src)

\* The repacker writes what the verifier accepts (tests/test_repack.py tries one file):
\* if nothing goes wrong from the start of a repack to the verification, it passes,
\* and a pack that passed can be served.
HonestPasses ==
  history.honest =>
    /\ history.last.verdict # "fail"
    /\ tool = "serve" => RuntimeAccepts(manifest, pack) /\ read_gguf(resident)

\* A pack that failed its verification is not served (README.md:13 gives nvmoe run as
\* "download -> repack -> byte-verify -> serve").
RejectedIsNotServed == tool = "serving" => history.last.verdict # "fail"
=============================================================================
