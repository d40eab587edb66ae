------------------------------ MODULE Retrieval ------------------------------
(***************************************************************************)
(* A question on its way through the processes of NitroRAG: the gateway    *)
(* (scripts/agent.py, one process per user) asks the vector database       *)
(* (server_VectorDB.cpp, a detached thread per connection), puts the       *)
(* prompt together and sends it to the inference server                    *)
(* (Server_Inference.cpp), whose only listener thread reads one connection *)
(* after the other.                                                        *)
(*                                                                         *)
(* Connections are byte streams that split messages anywhere.  A gateway   *)
(* may die at any moment, and its unsent bytes with it.  The database may  *)
(* die in a search (it starts at nodes[-1], see IndexFile) or of SIGPIPE   *)
(* when it sends to a gateway that is gone.                                *)
(***************************************************************************)
EXTENDS NitroRPC

CONSTANTS
    Client,          \* gateways
    Tokens,          \* token ids
    Question(_),     \* a user's question as tokens
    Answers,         \* what a search may return, as tokens
    BOS,
    MetaWords,       \* words of mask and range, 4 in the code
    SentDims,        \* dimensions of the gateway's embedding
    ExpectedDims,    \* dimensions the server reads, 128
    MayDie           \* gateways that may die

ASSUME RetrievalAssumption ==
    /\ "none" \notin Client
    /\ BOS \in Tokens
    /\ \A c \in Client : Question(c) \in Seq(Tokens)
    /\ Answers \subseteq Seq(Tokens)
    /\ {MetaWords, SentDims, ExpectedDims} \subseteq Nat

VARIABLES
    pc,              \* per gateway, where it is in ask_nitro
    context,         \* context_tokens
    wanted,          \* arr_len
    dbUp, dbDown,    \* streams between gateway and database
    dbEnd,           \* how the database closed: "open", "fin" or "rst"
    alive,           \* is the database process running
    handler,         \* per connection, where handle_db_client is
    received,        \* per connection, the bytes it has read
    answer,          \* per connection, what its search returned
    infUp,           \* stream from gateway to inference server
    infEnd,          \* has the engine closed the connection
    backlog,         \* connections not yet accepted
    listener,        \* [conn, got, need]: the call of recv_ints
    incoming         \* incoming_requests and the engine's requests

dbVars == <<dbUp, dbDown, dbEnd, alive, handler, received, answer>>
infVars == <<infUp, infEnd, backlog, listener, incoming>>
vars == <<pc, context, wanted, dbVars, infVars>>

Over == {"done", "failed"}
Gone(c) == pc[c] \in Over
GoneFromDb(c) == pc[c] \in Over \cup {"connect", "length", "tokens", "stream"}

Meta(c) == Words([i \in 1 .. MetaWords |-> c])
Vector(c, dims) == Words([i \in 1 .. dims |-> <<c, i>>])
QueryBytes == (MetaWords + ExpectedDims) * WordSize

Prompt(c) == <<BOS>> \o context[c] \o Question(c)

Waiting == [conn |-> "none", got |-> <<>>, need |-> 0]

Init ==
    /\ pc = [c \in Client |-> "question"]
    /\ context = [c \in Client |-> <<>>]
    /\ wanted = [c \in Client |-> 0]
    /\ dbUp = [c \in Client |-> <<>>] /\ dbDown = [c \in Client |-> <<>>]
    /\ dbEnd = [c \in Client |-> "open"]
    /\ alive = TRUE
    /\ handler = [c \in Client |-> "none"]
    /\ received = [c \in Client |-> <<>>]
    /\ answer = [c \in Client |-> <<>>]
    /\ infUp = [c \in Client |-> <<>>]
    /\ infEnd = [c \in Client |-> FALSE]
    /\ backlog = <<>>
    /\ listener = Waiting
    /\ incoming = {}

Goto(c, label) == pc' = [pc EXCEPT ![c] = label]
HandlerTo(c, label) == handler' = [handler EXCEPT ![c] = label]

-----------------------------------------------------------------------------
(* ask_nitro connects and sends the query in two sendalls; accept starts a *)
(* thread.  Without a database the connection is refused.                  *)
AskDb(c) ==
    /\ pc[c] = "question"
    /\ IF alive
       THEN /\ Goto(c, "vector")
            /\ dbUp' = [dbUp EXCEPT ![c] = Meta(c)]
            /\ HandlerTo(c, "query")
       ELSE Goto(c, "failed") /\ UNCHANGED <<dbUp, handler>>
    /\ UNCHANGED <<context, wanted, dbDown, dbEnd, alive, received, answer, infVars>>

SendVector(c) ==
    /\ pc[c] = "vector"
    /\ dbUp' = [dbUp EXCEPT ![c] = @ \o Vector(c, SentDims)]
    /\ Goto(c, "size")
    /\ UNCHANGED <<context, wanted, dbDown, dbEnd, alive, handler, received, answer,
                   infVars>>

(* After a reset recv may raise, whether or not data came before it.  Bytes *)
(* that reach a connection already closed reset it as well.                *)
Reset(c) ==
    /\ pc[c] \in {"vector", "size", "payload"}
    /\ dbEnd[c] = "rst" \/ (dbEnd[c] = "fin" /\ dbUp[c] # <<>>)
    /\ Goto(c, "failed")
    /\ UNCHANGED <<context, wanted, dbVars, infVars>>

(* recv_ints of the gateway: the length, with a single recv.  No byte at   *)
(* all is an empty answer; a part of a word makes struct.unpack raise.     *)
RecvSize(c) ==
    /\ pc[c] = "size"
    /\ \/ /\ Broken(dbDown[c], dbEnd[c] = "fin")
          /\ Goto(c, "connect")
          /\ UNCHANGED <<wanted, dbDown>>
       \/ \E k \in RecvSizes(dbDown[c], WordSize) :
            /\ dbDown' = [dbDown EXCEPT ![c] = SubSeq(@, k + 1, Len(@))]
            /\ IF k = WordSize
               THEN /\ wanted' = [wanted EXCEPT ![c] = Ints(dbDown[c])[1]]
                    /\ Goto(c, "payload")
               ELSE Goto(c, "failed") /\ UNCHANGED wanted
    /\ UNCHANGED <<context, dbUp, dbEnd, alive, handler, received, answer, infVars>>

(* Mutant of Unpacks: the array may be shorter than announced.             *)
UnpacksShort(k, n) == TRUE

(* struct.unpack accepts exactly the announced number of bytes.            *)
Unpacks(k, n) == k = n

(* The array, with a single recv again; recv(0) returns at once.           *)
RecvPayload(c) ==
    LET n == wanted[c] * WordSize IN
    /\ pc[c] = "payload"
    /\ \/ /\ n = 0
          /\ Goto(c, "connect")
          /\ UNCHANGED <<context, dbDown>>
       \/ /\ n > 0 /\ Broken(dbDown[c], dbEnd[c] = "fin")
          /\ Goto(c, "failed")
          /\ UNCHANGED <<context, dbDown>>
       \/ \E k \in RecvSizes(dbDown[c], n) :
            /\ dbDown' = [dbDown EXCEPT ![c] = SubSeq(@, k + 1, Len(@))]
            /\ IF Unpacks(k, n)
               THEN /\ context' = [context EXCEPT ![c] = Ints(SubSeq(dbDown[c], 1, k))]
                    /\ Goto(c, "connect")
               ELSE Goto(c, "failed") /\ UNCHANGED context
    /\ UNCHANGED <<wanted, dbUp, dbEnd, alive, handler, received, answer, infVars>>

(* db_sock is closed; the prompt goes to the inference server.             *)
AskEngine(c) ==
    /\ pc[c] = "connect"
    /\ backlog' = Append(backlog, c)
    /\ Goto(c, "length")
    /\ UNCHANGED <<context, wanted, dbVars, infUp, infEnd, listener, incoming>>

SendPrompt(c) ==
    /\ \/ /\ pc[c] = "length"
          /\ infUp' = [infUp EXCEPT ![c] = Word(Len(Prompt(c)))]
          /\ Goto(c, "tokens")
       \/ /\ pc[c] = "tokens"
          /\ infUp' = [infUp EXCEPT ![c] = @ \o Words(Prompt(c))]
          /\ Goto(c, "stream")
    /\ UNCHANGED <<context, wanted, dbVars, infEnd, backlog, listener, incoming>>

(* The answer ends when the engine closes the connection.                  *)
Finish(c) ==
    /\ pc[c] = "stream" /\ infEnd[c]
    /\ Goto(c, "done")
    /\ UNCHANGED <<context, wanted, dbVars, infVars>>

(* The gateway dies; what it sent may arrive in part.                      *)
Die(c) ==
    /\ c \in MayDie /\ pc[c] \notin Over \cup {"question"}
    /\ Goto(c, "failed")
    /\ \E n \in 0 .. Len(dbUp[c]) : dbUp' = [dbUp EXCEPT ![c] = SubSeq(@, 1, n)]
    /\ \E n \in 0 .. Len(infUp[c]) : infUp' = [infUp EXCEPT ![c] = SubSeq(@, 1, n)]
    /\ UNCHANGED <<context, wanted, dbDown, dbEnd, alive, handler, received, answer,
                   infEnd, backlog, listener, incoming>>

-----------------------------------------------------------------------------
(* close of a socket whose unread bytes have arrived resets the connection. *)
Ends(c) == IF dbUp[c] = <<>> THEN {"fin"} ELSE {"fin", "rst"}

Close(c) ==
    /\ HandlerTo(c, "closed")
    /\ \E end \in Ends(c) : dbEnd' = [dbEnd EXCEPT ![c] = end]

(* The process ends: every open connection is closed with it.              *)
DbDies ==
    /\ alive' = FALSE
    /\ handler' = [c \in Client |-> IF handler[c] = "none" THEN "none" ELSE "closed"]
    /\ dbEnd' \in [Client -> {"open", "fin", "rst"}]
    /\ \A c \in Client :
           IF handler[c] \in {"none", "closed"} THEN dbEnd'[c] = dbEnd[c]
                                               ELSE dbEnd'[c] \in Ends(c)

(* recv_structured_query: meta data and vector, read until complete.       *)
RecvQuery(c) ==
    /\ handler[c] = "query"
    /\ \/ /\ Broken(dbUp[c], GoneFromDb(c))
          /\ Close(c)
          /\ UNCHANGED <<dbUp, received>>
       \/ \E k \in RecvSizes(dbUp[c], QueryBytes - Len(received[c])) :
            LET got == received[c] \o SubSeq(dbUp[c], 1, k) IN
            /\ received' = [received EXCEPT ![c] = got]
            /\ dbUp' = [dbUp EXCEPT ![c] = SubSeq(@, k + 1, Len(@))]
            /\ HandlerTo(c, IF Whole(got, QueryBytes) THEN "search" ELSE "query")
            /\ UNCHANGED dbEnd
    /\ UNCHANGED <<pc, context, wanted, dbDown, alive, answer, infVars>>

(* greedy_search and the first K results, or the end of the process.       *)
Search(c) ==
    /\ handler[c] = "search"
    /\ \/ /\ \E a \in Answers : answer' = [answer EXCEPT ![c] = a]
          /\ HandlerTo(c, "send")
          /\ UNCHANGED <<alive, dbEnd>>
       \/ DbDies /\ UNCHANGED answer
    /\ UNCHANGED <<pc, context, wanted, dbUp, dbDown, received, infVars>>

(* send_ints: length and array; towards a gateway that is gone, send may   *)
(* succeed, fail, or raise SIGPIPE, which nothing catches.                 *)
SendAnswer(c) ==
    LET first == handler[c] = "send"
        bytes == IF first THEN Word(Len(answer[c])) ELSE Words(answer[c])
    IN /\ handler[c] \in {"send", "array"}
       /\ \/ /\ dbDown' = [dbDown EXCEPT ![c] = @ \o bytes]
             /\ HandlerTo(c, IF first /\ answer[c] # <<>> THEN "array" ELSE "close")
             /\ UNCHANGED <<dbEnd, alive>>
          \/ /\ GoneFromDb(c)
             /\ Close(c)
             /\ UNCHANGED <<dbDown, alive>>
          \/ /\ GoneFromDb(c)
             /\ DbDies
             /\ UNCHANGED dbDown
       /\ UNCHANGED <<pc, context, wanted, dbUp, received, answer, infVars>>

CloseDb(c) ==
    /\ handler[c] = "close"
    /\ Close(c)
    /\ UNCHANGED <<pc, context, wanted, dbUp, dbDown, alive, received, answer, infVars>>

-----------------------------------------------------------------------------
Accept ==
    /\ listener.conn = "none" /\ backlog # <<>>
    /\ listener' = [conn |-> Head(backlog), got |-> <<>>, need |-> WordSize]
    /\ backlog' = Tail(backlog)
    /\ UNCHANGED <<pc, context, wanted, dbVars, infUp, infEnd, incoming>>

(* Mutant of Announced: the array counted in bytes instead of ints.        *)
AnnouncedBytes(size) == WordSize + size

(* The bytes of a message of size ints, its length included.               *)
Announced(size) == WordSize * (1 + size)

(* recv_ints of the listener: the length, then the array.  Every prompt    *)
(* has tokens.  A connection that breaks is forgotten, not closed.         *)
RecvPrompt ==
    LET c == listener.conn
        head == listener.need = WordSize
        rest == listener.need - Len(listener.got)
    IN /\ c # "none"
       /\ \/ /\ Broken(infUp[c], Gone(c))
             /\ listener' = Waiting
             /\ UNCHANGED <<infUp, incoming>>
          \/ \E k \in RecvSizes(infUp[c], rest) :
               LET got == listener.got \o SubSeq(infUp[c], 1, k)
                   size == Ints(SubSeq(got, 1, WordSize))[1]
               IN /\ infUp' = [infUp EXCEPT ![c] = SubSeq(@, k + 1, Len(@))]
                  /\ IF ~Whole(got, listener.need)
                     THEN /\ listener' = [listener EXCEPT !.got = got]
                          /\ UNCHANGED incoming
                     ELSE IF head
                     THEN /\ listener' = [listener EXCEPT !.got = got,
                                              !.need = Announced(size)]
                          /\ UNCHANGED incoming
                     ELSE /\ listener' = Waiting
                          /\ incoming' = incoming \cup
                                 {[conn |-> c,
                                   tokens |-> Ints(SubSeq(got, WordSize + 1, Len(got)))]}
       /\ UNCHANGED <<pc, context, wanted, dbVars, infEnd, backlog>>

(* The engine serves every request it is given (ContinuousScheduler), in   *)
(* some order, and closes its connection.                                  *)
Serve ==
    /\ \E r \in incoming :
         /\ incoming' = incoming \ {r}
         /\ infEnd' = [infEnd EXCEPT ![r.conn] = TRUE]
    /\ UNCHANGED <<pc, context, wanted, dbVars, infUp, backlog, listener>>

Gateway(c) ==
    \/ AskDb(c) \/ SendVector(c) \/ Reset(c) \/ RecvSize(c) \/ RecvPayload(c)
    \/ AskEngine(c) \/ SendPrompt(c) \/ Finish(c)

Handler(c) == RecvQuery(c) \/ Search(c) \/ SendAnswer(c) \/ CloseDb(c)
Listener == Accept \/ RecvPrompt

Next ==
    \/ \E c \in Client : Gateway(c) \/ Die(c) \/ Handler(c)
    \/ Listener \/ Serve

Fairness ==
    /\ \A c \in Client : WF_vars(Gateway(c)) /\ WF_vars(Handler(c))
    /\ WF_vars(Listener) /\ WF_vars(Serve)

Spec == Init /\ [][Next]_vars /\ Fairness

-----------------------------------------------------------------------------
(* A search runs on exactly the bytes of one query of its client, however  *)
(* the stream split them and however many the gateway sent.                *)
QueryWhole ==
    \A c \in Client :
        handler[c] \in {"search", "send", "array", "close"} =>
            received[c] = Meta(c) \o Vector(c, ExpectedDims)

(* A prompt that is sent to the engine carries all the tokens that the     *)
(* search for this question returned, and no others: a torn answer ends    *)
(* the gateway and never shortens the context.  Only a database that ended *)
(* before it answered leaves a question without context.                   *)
ContextWhole ==
    \A c \in Client :
        pc[c] \in {"connect", "length", "tokens", "stream", "done"} =>
            \/ context[c] = answer[c]
            \/ context[c] = <<>> /\ ~alive

(* What the listener queues is the prompt that its client put together,    *)
(* and each at most once.                                                  *)
PromptWhole ==
    \A r \in incoming : r.tokens = Prompt(r.conn) /\ ~infEnd[r.conn]

(* Every question ends, with an answer or an error, if the processes keep  *)
(* running or die: no gateway waits for ever for a server, also not behind *)
(* another one that died in the middle of its prompt.                      *)
QuestionEnds == \A c \in Client : <>(pc[c] \in Over)
=============================================================================
