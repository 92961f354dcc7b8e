------------------------------ MODULE BinaryCache ------------------------------
(***************************************************************************)
(* ensure_cached_binary of core.py for the chisel client: callers in       *)
(* several processes find, download, unpack and try out one binary in      *)
(* ~/.cache, without a lock, while an antivirus may take it away.          *)
(***************************************************************************)
EXTENDS Naturals

CONSTANTS
  Caller,    \* threads, of any process, that ask for the binary
  Faults,    \* the faults that occur
  MaxFaults  \* bound: how many faults occur in a behaviour

ASSUME CacheAssumption == MaxFaults \in Nat

VARIABLES
  binary,   \* the file at bin_path
  archive,  \* the file at cache_dir/chisel.gz
  cache,    \* where each caller is in ensure_cached_binary
  faults    \* faults that may still occur

cacheVars == <<binary, archive, cache>>

Files == {"none",     \* no file
          "stub",     \* not larger than 1 MB: just opened for writing
          "cut",      \* larger than 1 MB, and not all of it
          "whole",
          "blocked"}  \* the antivirus holds it: nobody can run it

CacheSteps == {"idle", "look", "hit", "miss", "fetch", "unpack", "write", "smoke",
               "returned", "raised"}

CacheTypeOK ==
  /\ binary \in Files
  /\ archive \in {"none", "cut", "whole"}
  /\ cache \in [Caller -> CacheSteps]
  /\ faults \in 0 .. MaxFaults

CacheInit ==
  /\ binary \in {"none", "whole"}
  /\ archive = "none"
  /\ cache = [c \in Caller |-> "idle"]
  /\ faults = MaxFaults

InCache(c, from, to) == cache[c] = from /\ cache' = [cache EXCEPT ![c] = to]

Fault(kind) == kind \in Faults /\ faults > 0 /\ faults' = faults - 1

Others(c, at) == \E d \in Caller \ {c} : cache[d] = at

\* The kernel runs the file: it is complete, nobody has it open for writing
\* (ETXTBSY), and the antivirus lets it.
Runs == binary = "whole" /\ \A c \in Caller : cache[c] # "write"

-----------------------------------------------------------------------------

\* The cached file is there and larger than 1 MB.
Hit(c) ==
  /\ InCache(c, "look", "hit")
  /\ binary \in {"cut", "whole", "blocked"}
  /\ UNCHANGED <<binary, archive, faults>>

Miss(c) ==
  /\ InCache(c, "look", "miss")
  /\ binary \in {"none", "stub"}
  /\ UNCHANGED <<binary, archive, faults>>

\* The cached file runs, or starts and dies: check=False, and the exit code is
\* not looked at.
HitRuns(c) ==
  /\ InCache(c, "hit", "returned")
  /\ Runs \/ (binary = "cut" /\ \A d \in Caller : cache[d] # "write")
  /\ UNCHANGED <<binary, archive, faults>>

\* It cannot be executed: it is deleted, also under a writer, and downloaded
\* again.  The antivirus may refuse the deletion.
HitFails(c) ==
  /\ ~ Runs /\ InCache(c, "hit", "miss")
  /\ binary' \in IF binary = "blocked" THEN {"none", "blocked"} ELSE {"none"}
  /\ UNCHANGED <<archive, faults>>

\* Mutation: an archive that is there already is not downloaded again.
ReuseArchive(c) ==
  /\ InCache(c, "miss", IF archive = "none" THEN "fetch" ELSE "unpack")
  /\ archive' = IF archive = "none" THEN "cut" ELSE archive
  /\ UNCHANGED <<binary, faults>>

\* The server has answered: urlretrieve truncates the archive, whoever else is
\* busy with it.
StartFetch(c) ==
  /\ InCache(c, "miss", "fetch")
  /\ archive' = "cut"
  /\ UNCHANGED <<binary, faults>>

\* A download is complete on disk unless somebody else is writing the same
\* archive; if that one was unlinked meanwhile, so was this.
Fetched(c) ==
  /\ InCache(c, "fetch", "unpack")
  /\ archive' = IF archive = "none" \/ Others(c, "fetch") THEN archive ELSE "whole"
  /\ UNCHANGED <<binary, faults>>

FetchFails(c) ==
  /\ Fault("net") /\ (InCache(c, "miss", "raised") \/ InCache(c, "fetch", "raised"))
  /\ UNCHANGED <<binary, archive>>

\* gzip.open of the archive, then open(bin_path, "wb"), which truncates.
Unpack(c) ==
  /\ archive = "whole" /\ binary # "blocked" /\ InCache(c, "unpack", "write")
  /\ binary' \in {"stub", "cut"}
  /\ UNCHANGED <<archive, faults>>

\* No archive; a file that the antivirus does not give away, or that a launched
\* client may be running (ETXTBSY); half an archive, which is noticed when the
\* binary has already been truncated.
UnpackFails(c) ==
  /\ InCache(c, "unpack", "raised")
  /\ \/ (archive = "none" \/ binary \in {"blocked", "whole"}) /\ binary' = binary
     \/ archive = "cut" /\ binary # "blocked" /\ binary' = "stub"
  /\ UNCHANGED <<archive, faults>>

\* The last byte is written, the archive unlinked and the mode set.
Written(c) ==
  /\ InCache(c, "write", "smoke")
  /\ binary' = IF binary \in {"none", "blocked"} \/ Others(c, "write") THEN binary ELSE "whole"
  /\ archive' = "none"
  /\ faults' = faults

\* The smoke test after an installation wants an exit code of 0 or some output.
Smoke(c) ==
  /\ InCache(c, "smoke", IF Runs THEN "returned" ELSE "raised")
  /\ UNCHANGED <<binary, archive, faults>>

\* The antivirus quarantines or deletes the file; the user puts it on the
\* white list.
Antivirus ==
  /\ Fault("virus") /\ binary = "whole"
  /\ binary' \in {"blocked", "none"}
  /\ UNCHANGED <<archive, cache>>

Whitelist ==
  /\ binary = "blocked"
  /\ binary' = "whole"
  /\ UNCHANGED <<archive, cache, faults>>

CacheStep(c) ==
  \/ Hit(c) \/ Miss(c) \/ HitRuns(c) \/ HitFails(c)
  \/ StartFetch(c) \/ Fetched(c) \/ FetchFails(c) \/ Unpack(c) \/ UnpackFails(c) \/ Written(c) \/ Smoke(c)

=============================================================================
