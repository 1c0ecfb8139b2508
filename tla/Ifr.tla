-------------------------------- MODULE Ifr --------------------------------
(***************************************************************************)
(* The record that ends an episode (kernel/trace/ifr.c, version 3) and the *)
(* chain the records form, as the done branch of kernel_main64 builds,     *)
(* verifies, persists and arbitrates them.                                 *)
(*                                                                         *)
(* A hash is the value it is taken of under a constructor of its own, so   *)
(* two hashes are equal exactly when their inputs are.  The fields that    *)
(* only travel with the record (job, time, goodput) are left out; a nonce  *)
(* and a seal of the flight recorder are never seen twice, which the       *)
(* number of the episode stands for.                                       *)
(***************************************************************************)
EXTENDS Integers, Sequences

CONSTANTS Models,        \* model ids
          Cached,        \* those whose blob is in the shared heap
          MaxEpisodes    \* bound on episode_id

VARIABLES model,     \* model_id
          episode,   \* episode_id
          rec,       \* the record on the stack of kernel_main64
          head,      \* g_last_chain_hash
          pc,        \* where in the done branch
          chain      \* history: the records the host said it has persisted

ifrVars == <<model, episode, rec, head, pc, chain>>

Zero == <<"zero">>                       \* 32 bytes of zero
Sha256(kind, x) == <<kind, x>>

\* compute_model_digest; heap_get_data does not know every model.
ModelDigest(m) == IF m \in Cached THEN Sha256("model", m) ELSE Zero
DigestFlags(m) == IF m \in Cached THEN {"POLICY"} ELSE {"POLICY", "MODEL_MISSING"}

\* The bytes before ifr_hash, flags among them, and the fields of the chain.
CoreHash(r) == Sha256("core", <<r.flags, r.episode, r.model, r.nonce, r.digest, r.seal, r.prev>>)
ChainHash(r) == Sha256("chain", <<r.prev, r.ifrHash, r.seal, r.nonce, r.digest>>)

\* ifr_build_v3: the core, the two hashes, and then the flag for the
\* signature that is missing.
Built(m, n, prev) ==
  LET core == [flags |-> DigestFlags(m), episode |-> n, model |-> m, nonce |-> n,
               digest |-> ModelDigest(m), seal |-> n, prev |-> prev,
               ifrHash |-> Zero, chainHash |-> Zero]
      hashed == [core EXCEPT !.ifrHash = CoreHash(core)]
  IN [hashed EXCEPT !.chainHash = ChainHash(hashed), !.flags = @ \cup {"SIG_UNAVAILABLE"}]

\* ifr_verify_v3: magic, version and size are those of the builder.
Verifies(r) == r.ifrHash = CoreHash(r) /\ r.chainHash = ChainHash(r)

IfrInit ==
  /\ model \in Models /\ episode = 0 /\ head = Zero
  /\ rec = Built(model, 0, Zero)
  /\ pc = "run" /\ chain = << >>

\* The end of the branch: the next episode.
NextEpisode == pc' = "run" /\ episode' = episode + 1

\* Done: the record is built on the stack.
Build ==
  /\ pc = "run" /\ episode < MaxEpisodes
  /\ rec' = Built(model, episode, head)
  /\ pc' = "built"
  /\ UNCHANGED <<model, episode, head, chain>>

\* "IFR verify failed. Skipping persist."
SkipPersist ==
  /\ pc = "built" /\ ~Verifies(rec)
  /\ NextEpisode
  /\ UNCHANGED <<model, rec, head, chain>>

\* The record goes to a blob and to the host; without a blob it is dropped.
Persist ==
  /\ pc = "built" /\ Verifies(rec)
  /\ \/ pc' = "persist" /\ UNCHANGED episode
     \/ NextEpisode
  /\ UNCHANGED <<model, rec, head, chain>>

\* The answer to CMD_IFR_PERSIST: the arbiter is asked only after RSP_OK.
PersistAnswer ==
  /\ pc = "persist"
  /\ \/ pc' = "arbiter" /\ chain' = Append(chain, rec) /\ UNCHANGED episode
     \/ NextEpisode /\ UNCHANGED chain
  /\ UNCHANGED <<model, rec, head>>

\* The answer to CMD_ARB_EPISODE: the model it recommends and the new head of
\* the chain, or an error that leaves both.
ArbiterAnswer ==
  /\ pc = "arbiter"
  /\ \/ model' \in Models /\ head' = rec.chainHash
     \/ UNCHANGED <<model, head>>
  /\ NextEpisode
  /\ UNCHANGED <<rec, chain>>

IfrNext == Build \/ SkipPersist \/ Persist \/ PersistAnswer \/ ArbiterAnswer

IfrSpec == IfrInit /\ [][IfrNext]_ifrVars

-----------------------------------------------------------------------------
(* kmain64.cpp, done branch: "Episode Done. Persisting IFR...", and ifr.c: *)
(* "IFR core hash excludes ifr_hash, chain_hash, and signature fields."    *)
(* What ifr_build_v3 built is what ifr_verify_v3 accepts.                  *)
RecordsVerify == pc = "built" => Verifies(rec)
=============================================================================
