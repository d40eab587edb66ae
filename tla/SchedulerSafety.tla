--------------------------- MODULE SchedulerSafety ---------------------------
(***************************************************************************)
(* The properties of ContinuousScheduler.                                  *)
(***************************************************************************)
EXTENDS ContinuousScheduler

(* The queues hold requests, step's locals and the fields of Request keep  *)
(* their types, and prefill_idx stays inside the prompt.                   *)
SchedulerTypeOK ==
    /\ incoming_requests \in Seq(Seqs)
    /\ waiting_queue \in Seq(Seqs)
    /\ running_batch \in Seq(Seqs)
    /\ phase \in {"drain", "reap", "admit", "prefill", "sample", "decode",
                  "sampleAll", "reply"}
    /\ decode_reqs \in Seq(Seqs)
    /\ decode_tokens \in Seq(Tokens)
    /\ decode_positions \in Seq(Nat)
    /\ prefill_chunk \in Seq(Tokens)
    /\ active_prefill_req \subseteq Seqs
    /\ prefill_idx \in [Seqs -> Nat]
    /\ \A r \in Seqs : prefill_idx[r] <= Len(Prompt[r])
    /\ is_prefill_done \in [Seqs -> BOOLEAN]
    /\ is_finished \in [Seqs -> BOOLEAN]
    /\ next_token_to_process \in [Seqs -> Tokens \cup {NoToken}]
    /\ generated_tokens \in [Seqs -> Seq(Tokens)]
    /\ just_generated_new_token \in [Seqs -> BOOLEAN]
    /\ sent \in [Seqs -> Seq(Tokens)]
    /\ closes \in [Seqs -> Nat]
    /\ arrived \in Seq(Seqs)
    /\ leaked \subseteq Seqs

(* Every request that arrived is in exactly one place, once: the shared    *)
(* queue, the waiting queue, the running batch, or done; and only the      *)
(* running ones and the one being prefilled hold blocks between calls.     *)
InOnePlace ==
    LET queued == incoming_requests \o waiting_queue \o running_batch
    IN  /\ IsInjective(queued)
        /\ \A r \in Seqs :
               /\ r \in ToSet(queued) => r \in ToSet(arrived) /\ closes[r] <= 1
               /\ r \in ToSet(arrived) \ ToSet(queued) => closes[r] = 1
               /\ block_table[r] # <<>> =>
                      \/ r \in ToSet(running_batch) \cup releasing
                      \/ waiting_queue # <<>> /\ r = Head(waiting_queue)

(* The running batch never holds more than MaxGenerated + 1 requests, so   *)
(* that the decode batch and the prefill chunk together stay within        *)
(* max_tokens_per_batch and the MAX_BATCH rows of RunState, however many   *)
(* clients connect: one admission per step against MaxGenerated steps.     *)
BatchBound ==
    /\ Len(running_batch) <= MaxGenerated + 1
    /\ Len(decode_reqs) <= MaxGenerated
    /\ phase \in {"prefill", "sample", "decode", "sampleAll"} =>
           Len(decode_reqs) + Len(prefill_chunk)
               <= IF max_tokens_per_batch > MaxGenerated
                  THEN max_tokens_per_batch ELSE MaxGenerated

\* The prompt was found in the cache as a whole: step computed no token of it.
WholePromptHit(r) ==
    Len(Prompt[r]) % BlockSize = 0 /\ prefill_idx[r] = Len(Prompt[r])

(* step reads token and position of each decode request first and uses     *)
(* them after the hits, the evictions and the prefill of another request.  *)
(* They are still right then: each request is in the batch once, is not    *)
(* the one being prefilled, ends at its position, which is that of the     *)
(* last token generated for it, and will be fed this token.                *)
DecodesFresh ==
    phase = "decode" /\ pc = "idle" =>
        /\ IsInjective(decode_reqs)
        /\ \A i \in DOMAIN decode_reqs :
               LET r == decode_reqs[i]
               IN  /\ r \notin active_prefill_req
                   /\ decode_positions[i] = logical_token_count[r]
                   /\ ~WholePromptHit(r) =>
                          /\ decode_positions[i] =
                                 Len(Prompt[r]) + Len(generated_tokens[r]) - 1
                          /\ decode_tokens[i] = Last(generated_tokens[r])

(* Requests get through prefill in the order in which the listener queued  *)
(* them, over both queues and across chunked prefills.                     *)
NoOvertaking ==
    \A i, j \in DOMAIN arrived :
        i < j /\ (is_prefill_done[arrived[j]] \/ prefill_idx[arrived[j]] > 0)
            => is_prefill_done[arrived[i]]

\* The answer is the greedy continuation of the prompt.
GreedyAnswer(r) ==
    \A i \in DOMAIN generated_tokens[r] :
        generated_tokens[r][i] =
            argmax(Prompt[r] \o SubSeq(generated_tokens[r], 1, i - 1))

(* What a client is answered depends on its prompt alone: not on which     *)
(* blocks it shares, what was evicted, in which chunks it was prefilled or *)
(* whom it was batched with.  Requests whose whole prompt was cached are   *)
(* left out: see WholePromptHitsToo.                                       *)
GreedyOutput == \A r \in Seqs : WholePromptHit(r) \/ GreedyAnswer(r)

(* The document's claim for all requests: a prompt found in the prefix     *)
(* cache gets the answer that its prefill would have got.                  *)
WholePromptHitsToo == \A r \in Seqs : GreedyAnswer(r)

(* A connection is closed once, by the engine, after the last token.       *)
ClosedOnce ==
    \A r \in Seqs :
        /\ closes[r] <= 1
        /\ closes[r] = 1 => is_finished[r]
        /\ Len(generated_tokens[r]) <= MaxGenerated

(* README: tokens are "streamed over TCP back to the user".  When the      *)
(* server closes a connection it has sent every token it generated.        *)
AnswerStreamed ==
    \A r \in Seqs : closes[r] > 0 => sent[r] = generated_tokens[r]

(* A request that was queued is served to its end and its connection       *)
(* closed, unless the process exits for want of memory.                    *)
EveryRequestServed ==
    \A r \in Seqs : r \in ToSet(arrived) ~> (closes[r] = 1 \/ pc = "exit")

(* ... and its blocks go back to the pool or stay as prefix cache: a       *)
(* closed request does not hold memory forever.                            *)
MemoryReturned ==
    \A r \in Seqs :
        closes[r] = 1 ~> ((block_table[r] = <<>> /\ pc = "idle") \/ pc = "exit")
=============================================================================
