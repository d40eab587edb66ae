------------------------- MODULE ContinuousScheduler -------------------------
(***************************************************************************)
(* The inference server: the listener thread and the engine loop of        *)
(* src/src/Server_Inference.cpp around Continuous_Scheduler::step and the  *)
(* Request of src/src/pagedMemory.hpp, on top of the paged memory.         *)
(*                                                                         *)
(* A request and its Sequence have one identity, so Seqs is also the set   *)
(* of requests.  `phase' is where the engine loop is between two calls to  *)
(* the memory; while such a call is in progress (pc # "idle") it waits.    *)
(* A prompt is never empty: the gateway always sends the token 1 first.    *)
(***************************************************************************)
EXTENDS PagedMemory

CONSTANTS Prompt,               \* the prompt_tokens of each request
          max_tokens_per_batch, \* 256
          MaxGenerated,         \* 20
          argmax(_)             \* the model's next token after a text

ASSUME SchedulerAssumption ==
    /\ Prompt \in [Seqs -> Seq(Tokens) \ {<<>>}]
    /\ max_tokens_per_batch \in Nat \ {0}
    /\ MaxGenerated \in Nat \ {0, 1}  \* a first token is not compared with it

VARIABLES
    incoming_requests,          \* shared with the listener under queue_mutex
    waiting_queue, running_batch,
    phase,
    decode_reqs, decode_tokens, decode_positions,       \* step's decode batch
    prefill_chunk,              \* step's chunk of active_prefill_req, or <<>>
    active_prefill_req,         \* as a set with at most one member
    \* fields of Request
    prefill_idx, is_prefill_done, is_finished, next_token_to_process,
    generated_tokens, just_generated_new_token,
    \* what the clients see of their connection, and in which order they came
    sent, closes, arrived, leaked

requestVars == <<prefill_idx, is_prefill_done, is_finished,
                 next_token_to_process, generated_tokens>>
clientVars  == <<just_generated_new_token, sent, closes>>
listenVars  == <<incoming_requests, arrived, leaked>>
decodeVars  == <<decode_reqs, decode_tokens, decode_positions>>
stepVars    == <<decodeVars, prefill_chunk, active_prefill_req>>
schedVars   == <<waiting_queue, running_batch, phase, stepVars, requestVars,
                 clientVars, listenVars>>
serverVars  == <<memVars, schedVars>>

\* Nothing in next_token_to_process yet.
NoToken == <<>>

ServerInit ==
    /\ Init
    /\ incoming_requests = <<>> /\ waiting_queue = <<>> /\ running_batch = <<>>
    /\ phase = "drain"
    /\ decode_reqs = <<>> /\ decode_tokens = <<>> /\ decode_positions = <<>>
    /\ prefill_chunk = <<>> /\ active_prefill_req = {}
    /\ prefill_idx = [r \in Seqs |-> 0]
    /\ is_prefill_done = [r \in Seqs |-> FALSE]
    /\ is_finished = [r \in Seqs |-> FALSE]
    /\ next_token_to_process = [r \in Seqs |-> NoToken]
    /\ generated_tokens = [r \in Seqs |-> <<>>]
    /\ just_generated_new_token = [r \in Seqs |-> FALSE]
    /\ sent = [r \in Seqs |-> <<>>]
    /\ closes = [r \in Seqs |-> 0]
    /\ arrived = <<>>
    /\ leaked = {}

-----------------------------------------------------------------------------
(* The listener thread: a connection whose prompt arrives is queued under  *)
(* the mutex; one whose prompt does not is dropped without being closed.   *)
Connecting(r) == pc # "exit" /\ r \notin ToSet(arrived) \cup leaked

Receive(r) ==
    /\ Connecting(r)
    /\ incoming_requests' = Append(incoming_requests, r)
    /\ arrived' = Append(arrived, r)
    /\ UNCHANGED <<memVars, waiting_queue, running_batch, phase, stepVars,
                   requestVars, clientVars, leaked>>

ReceiveFails(r) ==
    /\ Connecting(r)
    /\ leaked' = leaked \cup {r}
    /\ UNCHANGED <<memVars, waiting_queue, running_batch, phase, stepVars,
                   requestVars, clientVars, incoming_requests, arrived>>

-----------------------------------------------------------------------------
(* The engine loop empties the shared queue, holding the mutex throughout, *)
(* and calls step if any request is active.                                *)
Drain ==
    /\ pc = "idle" /\ phase = "drain"
    /\ waiting_queue' = waiting_queue \o incoming_requests
    /\ incoming_requests' = <<>>
    /\ next_token_to_process' =
           [r \in Seqs |-> IF r \in ToSet(incoming_requests)
                           THEN Head(Prompt[r]) ELSE next_token_to_process[r]]
    /\ phase' = IF waiting_queue' # <<>> \/ running_batch # <<>>
                THEN "reap" ELSE "drain"
    /\ UNCHANGED <<memVars, running_batch, stepVars, prefill_idx,
                   is_prefill_done, is_finished, generated_tokens, clientVars,
                   arrived, leaked>>

\* Mutant of Reap: the request leaves the batch, its sequence keeps its blocks.
ReapUnreleased ==
    /\ pc = "idle" /\ phase = "reap"
    /\ \E i \in DOMAIN running_batch :
           /\ is_finished[running_batch[i]]
           /\ running_batch' = RemoveAt(running_batch, i)
    /\ UNCHANGED <<memVars, waiting_queue, phase, stepVars, requestVars,
                   clientVars, listenVars>>

(* step, first loop: finished requests leave the batch, front to back, and *)
(* their sequences are released.                                           *)
Reap ==
    /\ phase = "reap"
    /\ \E i \in DOMAIN running_batch :
           /\ is_finished[running_batch[i]]
           /\ \A j \in 1 .. i - 1 : ~is_finished[running_batch[j]]
           /\ StartRelease(running_batch[i])
           /\ running_batch' = RemoveAt(running_batch, i)
    /\ UNCHANGED <<waiting_queue, phase, stepVars, requestVars, clientVars,
                   listenVars>>

\* Mutant of DecodeBatch: the batch of the last step is still in the vector.
DecodeBatchKept ==
    decode_reqs \o SelectSeq(running_batch, LAMBDA r : is_prefill_done[r])

DecodeBatch ==
    LET collected[n \in 0 .. Len(running_batch)] ==
            IF n = 0 THEN <<>>
            ELSE IF is_prefill_done[running_batch[n]]
                 THEN Append(collected[n - 1], running_batch[n])
                 ELSE collected[n - 1]
    IN collected[Len(running_batch)]

(* ... and, when none is left, the decode batch is collected, with the     *)
(* token and the position that each of its requests has now.               *)
CollectDecodes ==
    /\ pc = "idle" /\ phase = "reap"
    /\ \A i \in DOMAIN running_batch : ~is_finished[running_batch[i]]
    /\ decode_reqs' = DecodeBatch
    /\ decode_tokens' =
           [i \in DOMAIN DecodeBatch |-> next_token_to_process[DecodeBatch[i]]]
    /\ decode_positions' =
           [i \in DOMAIN DecodeBatch |-> logical_token_count[DecodeBatch[i]]]
    /\ phase' = "admit"
    /\ UNCHANGED <<memVars, waiting_queue, running_batch, prefill_chunk,
                   active_prefill_req, requestVars, clientVars, listenVars>>

\* Mutant of token_budget: the decodes are not subtracted.
BudgetUnspent == max_tokens_per_batch

token_budget == max_tokens_per_batch - Len(decode_reqs)
Admitting == phase = "admit" /\ waiting_queue # <<>> /\ token_budget > 0

\* Mutant of NextInLine: the queue is a stack.
LastInLine == Last(waiting_queue)

NextInLine == Head(waiting_queue)

\* The next BlockSize tokens of the prompt of r.
p_chunk(r) ==
    SubSeq(Prompt[r], prefill_idx[r] + 1, prefill_idx[r] + BlockSize)
CanHit(r) ==
    /\ prefill_idx[r] + BlockSize <= Len(Prompt[r])
    /\ token_buffer[r] = <<>>
    /\ hash_block_state(current_hash[r], p_chunk(r)) \in DOMAIN cache_map

\* Mutant of Advance: prefill_idx is counted up in the loop and after it.
AdvanceTwice(r, n) == prefill_idx' = [prefill_idx EXCEPT ![r] = @ + 2 * n]

Advance(r, n) == prefill_idx' = [prefill_idx EXCEPT ![r] = @ + n]

(* One turn of the prefix-hit loop for the request in front.               *)
AdmitHit ==
    /\ Admitting
    /\ LET r == NextInLine
       IN  /\ CanHit(r)
           /\ PrefixHit(r, p_chunk(r))
           /\ Advance(r, BlockSize)
    /\ UNCHANGED <<waiting_queue, running_batch, phase, stepVars,
                   is_prefill_done, is_finished, next_token_to_process,
                   generated_tokens, clientVars, listenVars>>

\* Mutants of Promote: the request stays in the queue, or is not marked.
PromoteCopy(r) ==
    /\ is_prefill_done' = [is_prefill_done EXCEPT ![r] = TRUE]
    /\ running_batch' = Append(running_batch, r)
    /\ UNCHANGED waiting_queue
PromoteUnmarked(r) ==
    /\ running_batch' = Append(running_batch, r)
    /\ waiting_queue' = Tail(waiting_queue)
    /\ UNCHANGED is_prefill_done

\* The request in front has its whole prompt: it moves to the running batch.
Promote(r) ==
    /\ is_prefill_done' = [is_prefill_done EXCEPT ![r] = TRUE]
    /\ running_batch' = Append(running_batch, r)
    /\ waiting_queue' = Tail(waiting_queue)

(* After the hits, the request gets a chunk of what is left, within the    *)
(* budget; the last chunk moves it to the running batch.  One request per  *)
(* step is admitted.                                                       *)
AdmitChunk ==
    /\ pc = "idle" /\ Admitting
    /\ LET r          == NextInLine
           remaining  == Len(Prompt[r]) - prefill_idx[r]
           chunk_size == IF remaining < token_budget THEN remaining
                                                     ELSE token_budget
       IN  /\ ~CanHit(r)
           /\ prefill_chunk' = SubSeq(Prompt[r], prefill_idx[r] + 1,
                                      prefill_idx[r] + chunk_size)
           /\ active_prefill_req' = IF chunk_size > 0 THEN {r} ELSE {}
           /\ IF chunk_size = remaining
              THEN /\ Promote(r)
                   /\ UNCHANGED prefill_idx
              ELSE /\ Advance(r, chunk_size)
                   /\ UNCHANGED <<is_prefill_done, running_batch, waiting_queue>>
    /\ phase' = "prefill"
    /\ UNCHANGED <<memVars, decodeVars, is_finished, next_token_to_process,
                   generated_tokens, clientVars, listenVars>>

AdmitNone ==
    /\ pc = "idle" /\ phase = "admit" /\ ~Admitting
    /\ phase' = "prefill"
    /\ prefill_chunk' = <<>>
    /\ active_prefill_req' = {}
    /\ UNCHANGED <<memVars, waiting_queue, running_batch, decodeVars,
                   requestVars, clientVars, listenVars>>

-----------------------------------------------------------------------------
\* The text of r as the kernels read it from the pool.
TextRead(r) == [i \in 1 .. kv_len[r] |-> Last(kv[Slot(r, i)])]

(* forward_prefill_chunk for the admitted chunk.                           *)
Prefill ==
    /\ phase = "prefill"
    /\ \E r \in active_prefill_req : ForwardPrefillChunk(r, prefill_chunk)
    /\ phase' = "sample"
    /\ UNCHANGED <<waiting_queue, running_batch, stepVars, requestVars,
                   clientVars, listenVars>>

\* Mutant of Generate: the new token is not the next one to process.
GenerateUnfed(R) ==
    /\ generated_tokens' =
           [r \in Seqs |-> IF r \in R
                           THEN Append(generated_tokens[r], argmax(TextRead(r)))
                           ELSE generated_tokens[r]]
    /\ UNCHANGED next_token_to_process

\* The generated token becomes the next one to process.
Generate(R) ==
    /\ next_token_to_process' =
           [r \in Seqs |-> IF r \in R THEN argmax(TextRead(r))
                           ELSE next_token_to_process[r]]
    /\ generated_tokens' =
           [r \in Seqs |-> IF r \in R
                           THEN Append(generated_tokens[r], argmax(TextRead(r)))
                           ELSE generated_tokens[r]]

(* The last chunk of a prompt yields the first token of the answer.        *)
SampleFirst ==
    /\ pc = "idle"
    /\ \/ phase = "sample"
       \/ phase = "prefill" /\ active_prefill_req = {}
    /\ Generate({r \in active_prefill_req : is_prefill_done[r]})
    /\ phase' = "decode"
    /\ UNCHANGED <<memVars, waiting_queue, running_batch, stepVars,
                   prefill_idx, is_prefill_done, is_finished, clientVars,
                   listenVars>>

(* forward_decode_batch feeds each request the token collected for it ...  *)
Decode ==
    /\ phase = "decode"
    /\ ForwardDecodeBatch(decode_reqs, decode_tokens)
    /\ phase' = "sampleAll"
    /\ UNCHANGED <<waiting_queue, running_batch, stepVars, requestVars,
                   clientVars, listenVars>>

\* Mutant of IsLast: one token too many.
IsLastLate(n) == n > MaxGenerated

\* size() >= 20
IsLast(n) == n >= MaxGenerated

(* ... and yields one more; a request is finished at its last token.       *)
SampleAll ==
    LET R == ToSet(decode_reqs)
    IN  /\ pc = "idle"
        /\ phase = "sampleAll" \/ (phase = "decode" /\ decode_reqs = <<>>)
        /\ Generate(R)
        /\ is_finished' =
               [r \in Seqs |->
                    is_finished[r] \/ (r \in R /\ IsLast(Len(generated_tokens'[r])))]
        /\ phase' = "reply"
        /\ UNCHANGED <<memVars, waiting_queue, running_batch, stepVars,
                       prefill_idx, is_prefill_done, clientVars, listenVars>>

(* Back in the engine loop: new tokens are sent, finished connections are  *)
(* closed.                                                                 *)
Reply ==
    LET R   == ToSet(running_batch)
        new == {r \in R : just_generated_new_token[r]}
    IN  /\ pc = "idle" /\ phase = "reply"
        /\ sent' = [r \in Seqs |->
                        IF r \in new THEN Append(sent[r], Last(generated_tokens[r]))
                                     ELSE sent[r]]
        /\ just_generated_new_token' =
               [r \in Seqs |-> just_generated_new_token[r] /\ r \notin new]
        /\ closes' = [r \in Seqs |->
                          IF r \in R /\ is_finished[r] THEN closes[r] + 1
                                                       ELSE closes[r]]
        /\ phase' = "drain"
        /\ UNCHANGED <<memVars, waiting_queue, running_batch, stepVars,
                       requestVars, listenVars>>

-----------------------------------------------------------------------------
Call == CallStep /\ UNCHANGED schedVars

EngineStep ==
    \/ Drain \/ Reap \/ CollectDecodes
    \/ AdmitHit \/ AdmitChunk \/ AdmitNone
    \/ Prefill \/ SampleFirst \/ Decode \/ SampleAll \/ Reply
    \/ Call

ListenerStep == \E r \in Seqs : Receive(r) \/ ReceiveFails(r)

ServerNext == EngineStep \/ ListenerStep

\* The engine thread runs on by itself; a client may never connect.
ServerSpec == ServerInit /\ [][ServerNext]_serverVars /\ WF_serverVars(EngineStep)
=============================================================================
