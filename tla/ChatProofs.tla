----------------------------- MODULE ChatProofs -----------------------------
(***************************************************************************)
(* Proofs about ChatSession, for every set of sessions and texts and every *)
(* number of questions, streams and fetches: the page says it is sending   *)
(* exactly while a stream of it runs, and an answer stands under its own   *)
(* question, as long as no send was torn, no news of the server hidden, and*)
(* no session longer than the page asks for; and then a page at rest shows *)
(* what is stored.                                                         *)
(***************************************************************************)
EXTENDS ChatSession, SequenceLemmas

SessionIds == ChatSessions \cup {NoChat}
ChatTypes ==
  /\ repo \in ChatRepos /\ current \in SessionIds /\ historySync \in SessionIds
  /\ stream \in Sends \cup {NoChat}
  /\ chatDue \subseteq {"session", "items", "sending"}
  /\ stored \in [ChatSessions -> Seq(Messages)]
  /\ history \in [ChatSessions -> QueryOf(Seq(Messages))]
  /\ sends \in Nat /\ gap \in BOOLEAN /\ skipped \in BOOLEAN

\* The one stream is that of the last send, and shows in its own session or in none.
StreamInv ==
  /\ SendingMatchesStream
  /\ Streaming => /\ stream.n = sends /\ sends > 0
                  /\ current \in {NoChat, stream.session}
                  /\ stream.session = NoChat => ~stream.started
                  /\ stream.answered => stream.started

SameTurn(m, x) == m.role = x.role /\ m.n = x.n
Within(a, b) == \A i \in DOMAIN a : \E j \in DOMAIN b : SameTurn(a[i], b[j])

\* A list of messages of the first b sends, whose texts are tx: each answer below its
\* question, and the sends in their order.
Turns(seq, tx, b) ==
  /\ seq \in Seq(Messages)
  /\ \A i \in DOMAIN seq : seq[i].n \in 1 .. b /\ seq[i].text = tx[seq[i].n]
  /\ \A i \in DOMAIN seq : seq[i].role = "assistant" =>
       i > 1 /\ seq[i - 1].role = "user" /\ seq[i - 1].n = seq[i].n
  /\ \A i, j \in DOMAIN seq : i < j /\ seq[i].role = seq[j].role => seq[i].n < seq[j].n

IsPair(pair, n, text) ==
  /\ pair \in Seq(Messages) /\ Len(pair) = 2
  /\ \A i \in 1 .. 2 : pair[i].n = n /\ pair[i].text = text
  /\ pair[1].role = "user" /\ pair[2].role = "assistant"

\* What the cache holds of a session, and what is on its way, is of what is stored.
Known(q, st, tx, b) ==
  /\ q.data # NoData => Turns(q.data, tx, b) /\ Within(q.data, st)
  /\ q.flight # NoData => Turns(q.flight, tx, b) /\ Within(q.flight, st)
  /\ q.data # NoData /\ q.flight # NoData => Within(q.data, q.flight)

-----------------------------------------------------------------------------
(* Lists of messages *)

\* Where the elements of a concatenation come from.
LEMMA Concatenation ==
  ASSUME NEW S, NEW a \in Seq(S), NEW b \in Seq(S), NEW c, c = a \o b
  PROVE  /\ c \in Seq(S) /\ Len(c) = Len(a) + Len(b) /\ DOMAIN c = 1 .. Len(a) + Len(b)
         /\ \A i \in 1 .. Len(a) : c[i] = a[i]
         /\ \A i \in 1 .. Len(b) : c[Len(a) + i] = b[i]
  OBVIOUS

\* The question and answer of a later send, appended to a list of whole turns.
LEMMA PairAppended ==
  ASSUME NEW seq, NEW tx, NEW b \in Nat, Turns(seq, tx, b),
         NEW n \in Nat, b < n, NEW pair, IsPair(pair, n, tx[n]),
         NEW both, both = seq \o pair
  PROVE  Turns(both, tx, n)
  <1>1. /\ seq \in Seq(Messages) /\ pair \in Seq(Messages) /\ Len(pair) = 2 /\ Len(seq) \in Nat
        /\ DOMAIN seq = 1 .. Len(seq)
    BY DEF Turns, IsPair
  <1>2. /\ both \in Seq(Messages) /\ Len(both) = Len(seq) + 2
        /\ DOMAIN both = 1 .. Len(seq) + 2
        /\ \A i \in 1 .. Len(seq) : both[i] = seq[i]
        /\ both[Len(seq) + 1] = pair[1] /\ both[Len(seq) + 2] = pair[2]
    <2>1. /\ both \in Seq(Messages) /\ Len(both) = Len(seq) + Len(pair)
          /\ DOMAIN both = 1 .. Len(seq) + Len(pair)
          /\ \A i \in 1 .. Len(seq) : both[i] = seq[i]
          /\ \A i \in 1 .. Len(pair) : both[Len(seq) + i] = pair[i]
      <3>1. seq \in Seq(Messages) /\ pair \in Seq(Messages)
        BY <1>1
      <3> QED
        BY <3>1, Concatenation
    <2>2. 1 \in 1 .. Len(pair) /\ 2 \in 1 .. Len(pair)
      BY <1>1
    <2> QED
      BY <1>1, <2>1, <2>2
  <1>3. \A i \in DOMAIN both : \/ i \in 1 .. Len(seq) \/ i = Len(seq) + 1 \/ i = Len(seq) + 2
    BY <1>1, <1>2
  <1>4. /\ both[Len(seq) + 1].n = n /\ both[Len(seq) + 2].n = n
        /\ both[Len(seq) + 1].text = tx[n] /\ both[Len(seq) + 2].text = tx[n]
        /\ both[Len(seq) + 1].role = "user" /\ both[Len(seq) + 2].role = "assistant"
    BY <1>2 DEF IsPair
  <1>5. \A i \in 1 .. Len(seq) : /\ both[i].n \in 1 .. b /\ both[i].text = tx[both[i].n]
                                 /\ both[i].role = "assistant" =>
                                      i > 1 /\ seq[i - 1].role = "user" /\ seq[i - 1].n = both[i].n
    BY <1>1, <1>2 DEF Turns
  <1>6. \A i \in DOMAIN both : both[i].n \in 1 .. n /\ both[i].text = tx[both[i].n]
    <2> SUFFICES ASSUME NEW i \in DOMAIN both
                 PROVE  both[i].n \in 1 .. n /\ both[i].text = tx[both[i].n]
      OBVIOUS
    <2>1. n \in 1 .. n
      OBVIOUS
    <2>2. CASE i \in 1 .. Len(seq)
      BY <1>5, <2>2
    <2>3. CASE i = Len(seq) + 1 \/ i = Len(seq) + 2
      BY <1>4, <2>1, <2>3
    <2> QED
      BY <1>3, <2>2, <2>3
  <1>7. \A i \in DOMAIN both : both[i].role = "assistant" =>
          i > 1 /\ both[i - 1].role = "user" /\ both[i - 1].n = both[i].n
    <2> SUFFICES ASSUME NEW i \in DOMAIN both, both[i].role = "assistant"
                 PROVE  i > 1 /\ both[i - 1].role = "user" /\ both[i - 1].n = both[i].n
      OBVIOUS
    <2>1. CASE i \in 1 .. Len(seq)
      <3>1. i > 1 /\ i - 1 \in 1 .. Len(seq)
        BY <1>1, <1>5, <2>1
      <3> QED
        BY <1>2, <1>5, <2>1, <3>1
    <2>2. CASE i = Len(seq) + 1
      BY <1>4, <2>2
    <2>3. CASE i = Len(seq) + 2
      <3>1. i - 1 = Len(seq) + 1 /\ i > 1
        BY <1>1, <2>3
      <3> QED
        BY <1>4, <2>3, <3>1
    <2> QED
      BY <1>3, <2>1, <2>2, <2>3
  <1>8. ASSUME NEW i \in DOMAIN both, NEW j \in DOMAIN both, i < j, both[i].role = both[j].role
        PROVE  both[i].n < both[j].n
    <2>1. CASE j \in 1 .. Len(seq)
      <3>1. i \in 1 .. Len(seq)
        BY <1>1, <1>2, <1>8, <2>1
      <3> QED
        BY <1>1, <1>2, <1>8, <2>1, <3>1 DEF Turns
    <2>2. CASE j \notin 1 .. Len(seq)
      <3>1. both[j].n = n /\ i # Len(seq) + 2
        BY <1>1, <1>3, <1>4, <1>8, <2>2
      <3>2. i \in 1 .. Len(seq)
        <4>1. j = Len(seq) + 1 \/ j = Len(seq) + 2
          BY <1>3, <2>2
        <4>2. CASE j = Len(seq) + 1
          BY <1>1, <1>2, <1>8, <4>2
        <4>3. CASE j = Len(seq) + 2
          <5>1. both[i].role # "user"
            BY <1>4, <1>8, <4>3
          <5> QED
            BY <1>3, <1>4, <3>1, <5>1
        <4> QED
          BY <4>1, <4>2, <4>3
      <3> QED
        BY <1>5, <3>1, <3>2
    <2> QED
      BY <2>1, <2>2
  <1> QED
    BY <1>2, <1>6, <1>7, <1>8 DEF Turns

\* A later send changes nothing of earlier ones.
LEMMA TurnsLater ==
  ASSUME NEW seq, NEW S, NEW tx \in [Nat -> S], NEW b \in Nat, NEW c \in Nat, b <= c, Turns(seq, tx, b),
         NEW t
  PROVE  /\ Turns(seq, tx, c)
         /\ b < c => Turns(seq, [tx EXCEPT ![c] = t], b) /\ Turns(seq, [tx EXCEPT ![c] = t], c)
  <1>1. \A i \in DOMAIN seq : /\ seq[i].n \in 1 .. c
                              /\ b < c => seq[i].n # c /\ [tx EXCEPT ![c] = t][seq[i].n] = tx[seq[i].n]
    BY DEF Turns
  <1> QED
    BY <1>1 DEF Turns

\* A list has its own turns, and to have the turns of another is transitive.
LEMMA WithinAll ==
  ASSUME NEW a, NEW b, NEW c
  PROVE  /\ Within(a, a)
         /\ Within(a, b) /\ Within(b, c) => Within(a, c)
  BY DEF Within, SameTurn

\* A concatenation has the turns of both its parts.
LEMMA WithinAppended ==
  ASSUME NEW a \in Seq(Messages), NEW b \in Seq(Messages)
  PROVE  Within(a, a \o b) /\ Within(b, a \o b)
  <1> DEFINE c == a \o b
  <1>1. /\ Len(a) \in Nat /\ Len(b) \in Nat /\ DOMAIN a = 1 .. Len(a) /\ DOMAIN b = 1 .. Len(b)
        /\ DOMAIN c = 1 .. Len(a) + Len(b)
        /\ \A i \in 1 .. Len(a) : c[i] = a[i]
        /\ \A i \in 1 .. Len(b) : c[Len(a) + i] = b[i]
    <2>1. c = a \o b
      OBVIOUS
    <2> HIDE DEF c
    <2> QED
      BY <2>1, Concatenation
  <1> HIDE DEF c
  <1>2. \A i \in DOMAIN a : i \in DOMAIN c /\ c[i] = a[i]
    BY <1>1
  <1>3. \A i \in DOMAIN b : Len(a) + i \in DOMAIN c /\ c[Len(a) + i] = b[i]
    BY <1>1
  <1>4. Within(a, c)
    BY <1>2 DEF Within, SameTurn
  <1>5. Within(b, c)
    BY <1>3 DEF Within, SameTurn
  <1> QED
    BY <1>4, <1>5 DEF c

\* No turn is there twice.
LEMMA TurnsDiffer ==
  ASSUME NEW seq, NEW tx, NEW b \in Nat, Turns(seq, tx, b),
         NEW i \in DOMAIN seq, NEW j \in DOMAIN seq, SameTurn(seq[i], seq[j])
  PROVE  i = j
  <1>1. i \in Nat /\ j \in Nat /\ seq[i].n \in Nat /\ seq[j].n \in Nat
    BY DEF Turns
  <1>2. ~(i < j) /\ ~(j < i)
    BY <1>1 DEF Turns, SameTurn
  <1> QED
    BY <1>1, <1>2

\* So a list is no longer than one that has all its turns.
LEMMA WithinIsShorter ==
  ASSUME NEW a, NEW d, NEW tx, NEW b \in Nat, Turns(a, tx, b), NEW e, d \in Seq(e), Within(a, d)
  PROVE  Len(a) <= Len(d)
  <1> DEFINE at == [i \in DOMAIN a |-> CHOOSE j \in DOMAIN d : SameTurn(a[i], d[j])]
  <1>1. \A i \in DOMAIN a : at[i] \in DOMAIN d /\ SameTurn(a[i], d[at[i]])
    BY DEF Within
  <1>2. /\ Len(a) \in Nat /\ Len(d) \in Nat /\ DOMAIN a = 1 .. Len(a) /\ DOMAIN d = 1 .. Len(d)
    BY DEF Turns
  <1>3. at \in [1 .. Len(a) -> 1 .. Len(d)]
    BY <1>1, <1>2
  <1> HIDE DEF at
  <1>4. \A i, j \in 1 .. Len(a) : at[i] = at[j] => i = j
    <2> SUFFICES ASSUME NEW i \in 1 .. Len(a), NEW j \in 1 .. Len(a), at[i] = at[j] PROVE i = j
      OBVIOUS
    <2>1. SameTurn(a[i], a[j])
      BY <1>1, <1>2 DEF SameTurn
    <2> QED
      BY <1>2, <2>1, TurnsDiffer
  <1>5. at \in Injection(1 .. Len(a), 1 .. Len(d))
    BY <1>3, <1>4 DEF Injection, IsInjective
  <1>6. /\ IsFiniteSet(1 .. Len(d)) /\ Cardinality(1 .. Len(d)) = Len(d)
        /\ Cardinality(1 .. Len(a)) = Len(a)
    <2>1. \A n \in Nat : IsFiniteSet(1 .. n) /\ Cardinality(1 .. n) = n
      BY FS_Interval
    <2> QED
      BY <1>2, <2>1
  <1> QED
    BY <1>5, <1>6, FS_Injection

\* Merged with a history that has all its turns, a list becomes that history.
LEMMA MergeIsHistory ==
  ASSUME NEW local, NEW server, NEW tx, NEW b \in Nat, Turns(local, tx, b), Turns(server, tx, b),
         Within(local, server)
  PROVE  MergeServerMessages(local, server) = server \/ (server = <<>> /\ local = <<>>)
  <1> DEFINE K == {i \in DOMAIN server : server[i].role = "user"}
             users == UserMessages(server)
  <1>1. server \in Seq(Messages) /\ K \in SUBSET DOMAIN server /\ local \in Seq(Messages)
    BY DEF Turns
  <1>2. \A i \in K : Rank(i, K) \in DOMAIN users /\ users[Rank(i, K)] = server[i]
    BY <1>1, FilteredProperties DEF UserMessages
  <1>3. ASSUME NEW i \in DOMAIN local, local[i].role = "user"
        PROVE  FirstMatch(local[i], users) # {}
    <2> DEFINE hits == {k \in DOMAIN users : UsersMatch(local[i], users[k])}
    <2>1. PICK j \in DOMAIN server : SameTurn(local[i], server[j])
      BY DEF Within
    <2>2. j \in K /\ local[i].text = server[j].text
      BY <1>3, <2>1 DEF SameTurn, Turns
    <2>3. hits # {}
      BY <1>2, <2>2 DEF UsersMatch
    <2> QED
      BY <2>3 DEF FirstMatch
  <1>4. Len(server) >= Len(local)
    <2>1. Len(local) <= Len(server)
      BY <1>1, WithinIsShorter
    <2> QED
      BY <1>1, <2>1
  <1>5. {i \in DOMAIN local : local[i].role = "user" /\ FirstMatch(local[i], users) = {}} = {}
    BY <1>3
  <1>6. CASE server = <<>>
    <2>1. Len(local) = 0
      BY <1>1, <1>4, <1>6
    <2> QED
      BY <1>1, <1>6, <2>1
  <1>7. CASE server # <<>>
    BY <1>4, <1>5, <1>7 DEF MergeServerMessages
  <1> QED
    BY <1>6, <1>7

-----------------------------------------------------------------------------
(* The entries of the cache *)

\* What asking, answering and invalidating make of an entry of the cache.
LEMMA QueryTypes ==
  ASSUME NEW D, NEW q \in QueryOf(D)
  PROVE  /\ \A v \in D : /\ Fetched(q, v) \in QueryOf(D)
                         /\ Fetched(q, v).data = q.data /\ Fetched(q, v).flight = v
         /\ Answered(q) \in QueryOf(D) /\ Answered(q).data = q.flight /\ Answered(q).flight = NoData
         /\ \A shown \in BOOLEAN :
              /\ Invalidated(q, shown) \in QueryOf(D) /\ Invalidated(q, shown).data = q.data
              /\ Invalidated(q, shown).flight \in {q.flight, NoData}
  BY DEF QueryOf, Fetched, Answered, Invalidated

\* A known history stays known, whatever is asked, answered or invalidated.
LEMMA KnownKept ==
  ASSUME NEW D, NEW q \in QueryOf(D), NEW st, NEW tx, NEW b, Known(q, st, tx, b)
  PROVE  /\ \A v \in D : Turns(v, tx, b) /\ v = st => Known(Fetched(q, v), st, tx, b)
         /\ Known(Answered(q), st, tx, b)
         /\ \A shown \in BOOLEAN : Known(Invalidated(q, shown), st, tx, b)
  <1>1. ASSUME NEW v \in D, Turns(v, tx, b), v = st PROVE Known(Fetched(q, v), st, tx, b)
    BY <1>1, QueryTypes, WithinAll DEF Known
  <1>2. Known(Answered(q), st, tx, b)
    BY QueryTypes DEF Known
  <1>3. ASSUME NEW shown \in BOOLEAN PROVE Known(Invalidated(q, shown), st, tx, b)
    <2> DEFINE r == Invalidated(q, shown)
    <2>1. r.data = q.data /\ r.flight \in {q.flight, NoData}
      BY QueryTypes
    <2> HIDE DEF r
    <2>2. Known(r, st, tx, b)
      BY <2>1 DEF Known
    <2> QED
      BY <2>2 DEF r
  <1> QED
    BY <1>1, <1>2, <1>3

\* What is stored grows, and later sends come.
LEMMA KnownLater ==
  ASSUME NEW q, NEW st, NEW S, NEW tx \in [Nat -> S], NEW b \in Nat, Known(q, st, tx, b)
  PROVE  /\ \A su : Within(st, su) => Known(q, su, tx, b)
         /\ \A t : Known(q, st, [tx EXCEPT ![b + 1] = t], b + 1)
  <1>1. \A su : Within(st, su) => Known(q, su, tx, b)
    BY WithinAll DEF Known
  <1>2. ASSUME NEW t PROVE Known(q, st, [tx EXCEPT ![b + 1] = t], b + 1)
    <2>1. ASSUME NEW seq, Turns(seq, tx, b)
          PROVE  Turns(seq, [tx EXCEPT ![b + 1] = t], b + 1)
      <3>1. b + 1 \in Nat /\ b <= b + 1 /\ b < b + 1
        OBVIOUS
      <3> QED
        BY <2>1, <3>1, TurnsLater, Zenon
    <2> QED
      BY <2>1 DEF Known
  <1> QED
    BY <1>1, <1>2

-----------------------------------------------------------------------------
(* The invariant: while nothing went wrong, tx being the texts of the sends. *)

\* What is on the server and what the cache has of it.
ServerInv(tx) ==
  /\ \A s \in ChatSessions : /\ Turns(stored[s], tx, sends)
                             /\ Known(history[s], stored[s], tx, sends)
  /\ Streaming => IsPair(stream.pair, sends, tx[sends])
  /\ Streaming /\ ~stream.answered => \A s \in ChatSessions : Turns(stored[s], tx, sends - 1)
  /\ Streaming /\ stream.answered => Within(stream.pair, stored[stream.session])

\* A message shown is stored in the session shown, or of its stream.
Belongs(m, shown, st, sent) ==
  \/ shown # NoChat /\ \E j \in DOMAIN st[shown] : SameTurn(m, st[shown][j])
  \/ sent # NoChat /\ sent.session = shown /\ m.n = sent.n
Leaving == "session" \in chatDue /\ current = NoChat
\* A history that will be merged has all that is shown.
ShownInv(tx) ==
  /\ Turns(messages, tx, sends)
  /\ Leaving \/ \A i \in DOMAIN messages : Belongs(messages[i], current, stored, stream)
  /\ ~Idle /\ HistoryReady => Within(messages, Items)
  /\ current # NoChat /\ ~isSending /\ historySync # current /\ history[current].flight # NoData =>
       Within(messages, history[current].flight)

Talk(tx) == ServerInv(tx) /\ ShownInv(tx)

TextTables == [Nat -> Texts \cup {NoChat}]
Untroubled == ~gap /\ ~skipped /\ HistoriesFit
ChatInv ==
  /\ ChatTypes /\ StreamInv
  /\ Untroubled => \E tx \in TextTables : Talk(tx)

-----------------------------------------------------------------------------
LEMMA MessageType ==
  ASSUME NEW origin \in {"local", "server"}, NEW role \in {"user", "assistant"}, NEW n \in Nat,
         NEW text \in Texts
  PROVE  /\ Message(origin, role, n, text) \in Messages
         /\ Message(origin, role, n, text).role = role /\ Message(origin, role, n, text).n = n
         /\ Message(origin, role, n, text).text = text
  BY DEF Message, Messages

\* A send appends two messages.
LEMMA PairType ==
  ASSUME NEW origin \in {"local", "server"}, NEW n \in Nat, NEW text \in Texts, NEW pair,
         pair = <<Message(origin, "user", n, text), Message(origin, "assistant", n, text)>>
  PROVE  IsPair(pair, n, text)
  <1>1. /\ Message(origin, "user", n, text) \in Messages
        /\ Message(origin, "assistant", n, text) \in Messages
    BY MessageType
  <1>2. /\ pair \in Seq(Messages) /\ Len(pair) = 2
        /\ pair[1] = Message(origin, "user", n, text)
        /\ pair[2] = Message(origin, "assistant", n, text)
    BY <1>1
  <1>3. \A i \in 1 .. 2 : i = 1 \/ i = 2
    OBVIOUS
  <1> QED
    BY <1>2, <1>3, MessageType DEF IsPair

\* What a step makes of the stream keeps its type.
LEMMA SendType ==
  ASSUME ChatTypes, NEW n \in Nat, NEW text, NEW pair, IsPair(pair, n, text),
         NEW new, new = [n |-> n, session |-> current, repo |-> repo, pair |-> pair,
                         started |-> FALSE, answered |-> FALSE]
  PROVE  new \in Sends /\ new # NoChat
  <1>1. pair \in Seq(Messages) /\ repo \in ChatRepos /\ current \in ChatSessions \cup {NoChat}
    BY DEF ChatTypes, IsPair, SessionIds
  <1>2. new \in Sends
    BY <1>1 DEF Sends
  <1> QED
    BY <1>2, ChatAssumption

\* The stream of a new send.
LEMMA SendStarts ==
  ASSUME NEW s \in ChatSessions, NEW a \in Sends
  PROVE  LET b == [a EXCEPT !.started = TRUE, !.session = s]
         IN /\ b \in Sends /\ b # NoChat /\ b.n = a.n /\ b.session = s /\ b.pair = a.pair
            /\ b.started = TRUE /\ b.answered = a.answered
  BY ChatAssumption DEF Sends

\* The server has stored the pair of the send.
LEMMA SendAnswered ==
  ASSUME NEW a \in Sends, NEW b, b = [a EXCEPT !.answered = TRUE]
  PROVE  /\ b \in Sends /\ b # NoChat /\ b.n = a.n /\ b.session = a.session /\ b.pair = a.pair
         /\ b.started = a.started /\ b.answered = TRUE
  BY ChatAssumption DEF Sends

\* What the server stores is again a list of messages.
LEMMA StoredType ==
  ASSUME ChatTypes, Streaming
  PROVE  [stored EXCEPT ![stream.session] = @ \o stream.pair] \in [ChatSessions -> Seq(Messages)]
  <1>1. stream.pair \in Seq(Messages)
    BY DEF ChatTypes, Streaming, Sends
  <1>2. \A s \in ChatSessions : stored[s] \o stream.pair \in Seq(Messages)
    BY <1>1, Concatenation DEF ChatTypes
  <1> QED
    BY <1>2 DEF ChatTypes

\* An abort that leaves no gap found no stream, and stored nothing.
LEMMA AbortKeeps ==
  ASSUME ChatTypes, Abort, AbortStores
  PROVE  /\ stream' = NoChat /\ isSending' = FALSE /\ gap' \in BOOLEAN
         /\ stored' \in [ChatSessions -> Seq(Messages)]
         /\ ~gap' => ~gap /\ ~Streaming /\ stored' = stored
  BY StoredType DEF ChatTypes, Abort, AbortStores

\* Every entry of the cache may be invalidated at once.
LEMMA InvalidateType ==
  ASSUME ChatTypes, NEW s, Invalidate(s)
  PROVE  /\ history' \in [ChatSessions -> QueryOf(Seq(Messages))]
         /\ \A t \in ChatSessions \ {s} : history'[t] = history[t]
         /\ s \in ChatSessions => history'[s] = Invalidated(history[s], s = current)
  <1>1. (s = current) \in BOOLEAN
    OBVIOUS
  <1>2. s \in ChatSessions => Invalidated(history[s], s = current) \in QueryOf(Seq(Messages))
    BY <1>1, QueryTypes DEF ChatTypes
  <1> QED
    BY <1>2 DEF ChatTypes, Invalidate

\* The server answers with messages, with all of them when they fit.
LEMMA OldestPageProperties ==
  ASSUME NEW S, NEW seq \in Seq(S)
  PROVE  OldestPage(seq) \in Seq(S) /\ (Len(seq) <= HistoryLimit => OldestPage(seq) = seq)
  <1> DEFINE n == IF Len(seq) < HistoryLimit THEN Len(seq) ELSE HistoryLimit
  <1>1. n \in 0 .. Len(seq) /\ (Len(seq) <= HistoryLimit => n = Len(seq))
    BY ChatBounds
  <1>2. OldestPage(seq) = SubSeq(seq, 1, n)
    BY DEF OldestPage
  <1> HIDE DEF n
  <1>3. SubSeq(seq, 1, n) \in Seq(S)
    BY <1>1
  <1>4. SubSeq(seq, 1, Len(seq)) = seq
    OBVIOUS
  <1> QED
    BY <1>1, <1>2, <1>3, <1>4

ChatBase == ChatTypes /\ StreamInv

\* Every step keeps the types and the agreement of stream and composer.
LEMMA ChatBaseStep == ChatBase /\ [ChatNext]_chatVars => ChatBase'
  <1> SUFFICES ASSUME ChatTypes, StreamInv, [ChatNext]_chatVars PROVE ChatTypes' /\ StreamInv'
    BY DEF ChatBase
  <1>1. CASE RunChatEffects
    <2>1. skipped' \in BOOLEAN
      BY <1>1 DEF RunChatEffects, ChatTypes
    <2> QED
      BY <1>1, <2>1 DEF RunChatEffects, ChatTypes, serverVars, StreamInv, SendingMatchesStream, Streaming
  <1>2. CASE \E t \in Texts : SendMessage(t)
    <2> PICK t \in Texts : SendMessage(t)
      BY <1>2
    <2> DEFINE n == sends + 1
               pair == <<Message("server", "user", n, t), Message("server", "assistant", n, t)>>
    <2>1. n \in Nat /\ IsPair(pair, n, t)
      BY PairType DEF ChatTypes
    <2>2. /\ stream' = [n |-> n, session |-> current, repo |-> repo, pair |-> pair,
                        started |-> FALSE, answered |-> FALSE]
          /\ sends' = n /\ isSending' = TRUE /\ chatDue' = {"sending"}
          /\ UNCHANGED <<repo, current, historySync, stored, history, skipped, gap>>
      BY DEF SendMessage, serverVars
    <2> HIDE DEF pair, n
    <2>3. /\ stream' \in Sends /\ stream' # NoChat /\ stream'.n = n /\ stream'.session = current
          /\ stream'.started = FALSE /\ stream'.answered = FALSE
      BY <2>1, <2>2, SendType
    <2>4. ChatTypes'
      BY <2>1, <2>2, <2>3 DEF ChatTypes, n
    <2> QED
      BY <2>2, <2>3, <2>4 DEF StreamInv, SendingMatchesStream, Streaming, ChatTypes, n
  <1>3. CASE \E s \in ChatSessions : EventStart(s)
    <2> PICK s \in ChatSessions : EventStart(s)
      BY <1>3
    <2>1. stream \in Sends /\ stream' = [stream EXCEPT !.started = TRUE, !.session = s]
      BY DEF EventStart, Streaming, ChatTypes
    <2>2. /\ stream' \in Sends /\ stream' # NoChat /\ stream'.n = stream.n
          /\ stream'.session = s /\ stream'.started = TRUE
      BY <2>1, SendStarts
    <2>3. /\ UNCHANGED <<repo, isSending, historySync, stored, history, skipped, sends, gap>>
          /\ current' = s \/ (current' = current /\ s = stream.session)
          /\ chatDue' \subseteq {"session", "items", "sending"}
      BY DEF EventStart, ChatTypes
    <2>4. ChatTypes'
      BY <2>2, <2>3 DEF ChatTypes, SessionIds
    <2> QED
      BY <2>2, <2>3, <2>4, ChatAssumption
      DEF StreamInv, SendingMatchesStream, Streaming, EventStart
  <1>4. CASE \E s \in ChatSessions : HistoryArrives(s)
    <2> PICK s \in ChatSessions : HistoryArrives(s)
      BY <1>4
    <2>1. Answered(history[s]) \in QueryOf(Seq(Messages))
      BY QueryTypes DEF ChatTypes
    <2>2. ChatTypes'
      BY <2>1 DEF HistoryArrives, ChatTypes, hookVars, serverVars
    <2> QED
      BY <2>2 DEF HistoryArrives, hookVars, StreamInv, SendingMatchesStream, Streaming
  <1>5. CASE \E s \in ChatSessions : SelectSession(s)
    <2> PICK s \in ChatSessions : SelectSession(s)
      BY <1>5
    <2>1. CASE s = current
      <3>1. Invalidate(s) /\ UNCHANGED <<repo, stream, isSending, gap, stored, current, chatDue,
                                         historySync, skipped, sends>>
        BY <2>1 DEF SelectSession
      <3>2. ChatTypes'
        BY <3>1, InvalidateType DEF ChatTypes
      <3> QED
        BY <3>1, <3>2 DEF StreamInv, SendingMatchesStream, Streaming
    <2>2. CASE s # current
      <3>1. /\ Abort /\ AbortStores /\ current' = s /\ chatDue' = {"session"}
            /\ UNCHANGED <<repo, history, historySync, skipped, sends>>
        BY <2>2 DEF SelectSession, Show
      <3>2. ChatTypes'
        BY <3>1, AbortKeeps DEF ChatTypes, SessionIds
      <3> QED
        BY <3>1, <3>2, AbortKeeps DEF StreamInv, SendingMatchesStream, Streaming
    <2> QED
      BY <2>1, <2>2
  <1>6. CASE \E ok \in BOOLEAN : ServerStores(ok)
    <2> PICK ok \in BOOLEAN : ServerStores(ok)
      BY <1>6
    <2>1. stream \in Sends /\ stream' = [stream EXCEPT !.answered = TRUE] /\ stream.started
      BY DEF ServerStores, Streaming, ChatTypes
    <2>2. /\ stream' \in Sends /\ stream' # NoChat /\ stream'.n = stream.n
          /\ stream'.session = stream.session /\ stream'.started = stream.started
      BY <2>1, SendAnswered
    <2>3. stored' \in [ChatSessions -> Seq(Messages)]
      BY StoredType DEF ServerStores, ChatTypes
    <2>4. ChatTypes'
      BY <2>2, <2>3 DEF ChatTypes, ServerStores
    <2> QED
      BY <2>1, <2>2, <2>4 DEF StreamInv, SendingMatchesStream, Streaming, ServerStores
  <1>7. CASE \E ok \in BOOLEAN : StreamEnds(ok)
    <2> PICK ok \in BOOLEAN : StreamEnds(ok)
      BY <1>7
    <2>1. stream \in Sends /\ historySync' \in SessionIds
      BY DEF StreamEnds, Streaming, ChatTypes, Sends, SessionIds
    <2>2. ChatTypes'
      BY <2>1 DEF ChatTypes, StreamEnds, serverVars
    <2> QED
      BY <2>2 DEF StreamInv, SendingMatchesStream, Streaming, StreamEnds
  <1>8. CASE SyncTimer
    <2>1. /\ Invalidate(historySync) /\ historySync' = NoChat /\ skipped' \in BOOLEAN
          /\ UNCHANGED <<repo, current, stream, isSending, chatDue, stored, sends, gap>>
      BY <1>8 DEF SyncTimer, serverVars, ChatTypes
    <2>2. ChatTypes'
      BY <2>1, InvalidateType DEF ChatTypes, SessionIds
    <2> QED
      BY <2>1, <2>2 DEF StreamInv, SendingMatchesStream, Streaming
  <1>9. CASE FetchHistory
    <2>1. current \in ChatSessions
      BY <1>9 DEF FetchHistory, ChatTypes, SessionIds
    <2>a. OldestPage(stored[current]) \in Seq(Messages)
      BY <2>1, OldestPageProperties DEF ChatTypes
    <2>2. Fetched(history[current], OldestPage(stored[current])) \in QueryOf(Seq(Messages))
      BY <2>1, <2>a, QueryTypes DEF ChatTypes
    <2>3. ChatTypes'
      BY <1>9, <2>2 DEF FetchHistory, ChatTypes, hookVars, serverVars
    <2> QED
      BY <1>9, <2>3 DEF FetchHistory, hookVars, StreamInv, SendingMatchesStream, Streaming
  <1>10. CASE ClearMessages \/ StopGeneration
    <2>1. /\ Abort /\ AbortStores /\ current' \in {current, NoChat}
          /\ chatDue' \subseteq {"session", "items", "sending"}
          /\ UNCHANGED <<repo, history, historySync, skipped, sends>>
      BY <1>10 DEF ClearMessages, StopGeneration, Show
    <2>2. ChatTypes'
      BY <2>1, AbortKeeps DEF ChatTypes, SessionIds
    <2> QED
      BY <2>1, <2>2, AbortKeeps DEF StreamInv, SendingMatchesStream, Streaming
  <1>11. CASE PaletteNewSession \/ \E r \in ChatRepos : SwitchRepository(r)
    <2>1. /\ current' = NoChat /\ chatDue' \subseteq {"session", "items", "sending"}
          /\ repo' \in ChatRepos
          /\ UNCHANGED <<stream, isSending, historySync, stored, history, skipped, sends, gap>>
      BY <1>11 DEF PaletteNewSession, SwitchRepository, Show, hookVars, serverVars, ChatTypes
    <2>2. ChatTypes'
      BY <2>1 DEF ChatTypes, SessionIds
    <2> QED
      BY <2>1, <2>2 DEF StreamInv, SendingMatchesStream, Streaming
  <1>12. CASE UNCHANGED chatVars
    BY <1>12 DEF chatVars, hookVars, serverVars, ChatTypes, StreamInv, SendingMatchesStream, Streaming
  <1> QED
    BY <1>1, <1>2, <1>3, <1>4, <1>5, <1>6, <1>7, <1>8, <1>9, <1>10, <1>11, <1>12 DEF ChatNext

-----------------------------------------------------------------------------
(* A step with nothing lost, for one action each *)

\* The empty list is one of whole turns, and within every other.
LEMMA EmptyTurns ==
  ASSUME NEW seq, seq = <<>>, NEW tx, NEW b, NEW other
  PROVE  Turns(seq, tx, b) /\ Within(seq, other) /\ DOMAIN seq = {}
  BY DEF Turns, Within

\* Of the entries of the cache only that of s changes.
LEMMA CacheStep ==
  ASSUME ChatTypes, NEW tx, ServerInv(tx), NEW s \in ChatSessions,
         NEW q, Known(q, stored[s], tx, sends), history' = [history EXCEPT ![s] = q],
         UNCHANGED <<stored, stream, sends>>
  PROVE  ServerInv(tx)'
  <1>1. \A t \in ChatSessions : Known(history'[t], stored[t], tx, sends)
    BY DEF ChatTypes, ServerInv
  <1> QED
    BY <1>1 DEF ServerInv, Streaming

\* The effects of a render: the list is emptied or merged with the history.
LEMMA EffectsTalk ==
  ASSUME ChatTypes, NEW tx, Talk(tx), RunChatEffects
  PROVE  Talk(tx)'
  <1>1. UNCHANGED <<repo, current, stream, isSending, historySync, stored, history, sends>>
        /\ chatDue' = {} /\ ~Idle
    BY DEF RunChatEffects, serverVars
  <1>2. ServerInv(tx)'
    BY <1>1 DEF Talk, ServerInv, Streaming
  <1>3. ~Idle' /\ HistoryReady' => FALSE
    BY <1>1 DEF Idle
  <1>4. CASE Leaving
    <2>1. messages' = <<>>
      BY <1>4 DEF RunChatEffects, Leaving
    <2>2. Turns(messages', tx, sends') /\ DOMAIN messages' = {}
          /\ Within(messages', history'[current'].flight)
      BY <2>1, EmptyTurns
    <2> QED
      BY <1>2, <1>3, <2>2 DEF Talk, ShownInv
  <1>5. CASE ~Leaving /\ HistoryReady
    <2>1. /\ messages' = MergeServerMessages(messages, Items) /\ Within(messages, Items)
          /\ current \in ChatSessions /\ Items # NoData /\ Items # <<>>
      BY <1>1, <1>5 DEF RunChatEffects, Leaving, Talk, ShownInv, HistoryReady, ChatTypes, SessionIds
    <2>2. /\ Turns(Items, tx, sends) /\ Within(Items, stored[current])
          /\ history[current].flight # NoData => Within(Items, history[current].flight)
          /\ Turns(messages, tx, sends)
      BY <2>1 DEF Talk, ServerInv, ShownInv, Known, Items
    <2>3. messages' = Items
      BY <2>1, <2>2, MergeIsHistory DEF ChatTypes
    <2>4. \A i \in DOMAIN messages' :
          Belongs(messages'[i], current', stored', stream')
      BY <1>1, <2>1, <2>2, <2>3, ChatAssumption DEF Belongs, Within, SameTurn
    <2> QED
      BY <1>1, <1>2, <1>3, <2>2, <2>3, <2>4 DEF Talk, ShownInv
  <1>6. CASE ~Leaving /\ ~HistoryReady
    <2>1. messages' = messages
      BY <1>6 DEF RunChatEffects, Leaving
    <2>2. \A i \in DOMAIN messages' :
          Belongs(messages'[i], current', stored', stream')
      BY <1>1, <1>6, <2>1 DEF Belongs, Talk, ShownInv, Streaming
    <2> QED
      BY <1>1, <1>2, <1>3, <2>1, <2>2 DEF Talk, ShownInv
  <1> QED
    BY <1>4, <1>5, <1>6

\* A send puts its pair at the end of the list.
LEMMA SendTalk ==
  ASSUME ChatTypes, StreamInv, NEW tx \in TextTables, Talk(tx), NEW t \in Texts, SendMessage(t)
  PROVE  \E ty \in TextTables : Talk(ty)'
  <1> DEFINE n == sends + 1
             pair == <<Message("server", "user", n, t), Message("server", "assistant", n, t)>>
             shown == <<Message("local", "user", n, t), Message("local", "assistant", n, t)>>
  <1> PICK ty : ty = [tx EXCEPT ![n] = t]
    OBVIOUS
  <1>1. /\ n \in Nat /\ sends \in Nat /\ sends < n /\ sends <= n /\ n - 1 = sends
        /\ ty \in TextTables /\ ty[n] = t
    BY DEF ChatTypes, TextTables
  <1>2. /\ sends' = n /\ messages' = messages \o shown /\ isSending' = TRUE
        /\ stream' = [n |-> n, session |-> current, repo |-> repo, pair |-> pair,
                      started |-> FALSE, answered |-> FALSE]
        /\ UNCHANGED <<current, stored, history>> /\ ~isSending /\ chatDue = {}
    BY DEF SendMessage, serverVars, Idle
  <1>3. IsPair(pair, n, ty[n]) /\ IsPair(shown, n, ty[n])
    BY <1>1, PairType
  <1>4. ~Streaming
    BY <1>2 DEF StreamInv, SendingMatchesStream
  <1> HIDE DEF n, pair, shown
  <1>5. /\ Streaming' /\ stream'.n = n /\ stream'.session = current /\ stream'.pair = pair
        /\ stream'.answered = FALSE
    BY <1>1, <1>2, <1>3, SendType DEF Streaming
  <1>6. \A seq : Turns(seq, tx, sends) => Turns(seq, ty, n) /\ Turns(seq, ty, sends)
    BY <1>1, TurnsLater DEF TextTables
  <1>7. \A s \in ChatSessions : Known(history[s], stored[s], ty, n)
    <2>1. \A s \in ChatSessions : Known(history[s], stored[s], tx, sends)
      BY DEF Talk, ServerInv
    <2> QED
      BY <1>1, <1>6, <2>1 DEF Known
  <1>8. ServerInv(ty)'
    BY <1>1, <1>2, <1>3, <1>5, <1>6, <1>7 DEF Talk, ServerInv
  <1>9. Turns(messages', ty, n)
    BY <1>1, <1>2, <1>3, <1>6, PairAppended DEF Talk, ShownInv
  <1>10. \A i \in DOMAIN messages' :
          Belongs(messages'[i], current', stored', stream')
    <2> SUFFICES ASSUME NEW i \in DOMAIN messages' PROVE Belongs(messages'[i], current', stored', stream')
      OBVIOUS
    <2>1. messages \in Seq(Messages) /\ shown \in Seq(Messages) /\ Len(shown) = 2
      BY <1>3 DEF IsPair, Talk, ShownInv, Turns
    <2>2. /\ DOMAIN messages' = 1 .. Len(messages) + Len(shown)
          /\ \A k \in 1 .. Len(messages) : messages'[k] = messages[k]
          /\ \A k \in 1 .. Len(shown) : messages'[Len(messages) + k] = shown[k]
      <3>1. messages \in Seq(Messages) /\ shown \in Seq(Messages)
        BY <2>1
      <3> QED
        BY <1>2, <3>1, Concatenation
    <2>3. CASE i \in 1 .. Len(messages)
      <3>1. Belongs(messages[i], current, stored, stream)
        BY <1>2, <2>1, <2>3 DEF Talk, ShownInv, Leaving
      <3> QED
        BY <1>2, <1>4, <2>2, <2>3, <3>1 DEF Belongs, Streaming
    <2>4. CASE i \notin 1 .. Len(messages)
      <3>1. i - Len(messages) \in 1 .. 2 /\ i = Len(messages) + (i - Len(messages))
        BY <2>1, <2>2, <2>4
      <3>2. messages'[i] = shown[i - Len(messages)]
        BY <2>1, <2>2, <3>1
      <3>3. messages'[i].n = n
        BY <1>3, <3>1, <3>2 DEF IsPair
      <3> QED
        BY <1>2, <1>5, <3>3 DEF Belongs, Streaming
    <2> QED
      BY <2>3, <2>4
  <1>11. ShownInv(ty)'
    BY <1>2, <1>9, <1>10 DEF ShownInv, HistoryReady
  <1> QED
    BY <1>1, <1>8, <1>11 DEF Talk

\* The stream begins, and names its session.
LEMMA StartTalk ==
  ASSUME ChatTypes, StreamInv, NEW tx, Talk(tx), NEW s \in ChatSessions, EventStart(s)
  PROVE  Talk(tx)'
  <1>1. /\ stream \in Sends /\ stream' = [stream EXCEPT !.started = TRUE, !.session = s]
        /\ ~stream.started /\ Streaming /\ chatDue = {}
        /\ UNCHANGED <<messages, isSending, historySync, stored, history, sends>>
    BY DEF EventStart, Streaming, ChatTypes, Idle
  <1>2. /\ stream' \in Sends /\ stream' # NoChat /\ stream'.n = stream.n /\ stream'.session = s
        /\ stream'.pair = stream.pair /\ stream'.answered = stream.answered
    BY <1>1, SendStarts
  <1>3. ~stream.answered /\ isSending
    BY <1>1 DEF StreamInv, SendingMatchesStream
  <1>4. ServerInv(tx)'
    BY <1>1, <1>2, <1>3 DEF Talk, ServerInv, Streaming
  <1>5. \A i \in DOMAIN messages : Belongs(messages[i], current, stored, stream)
    BY <1>1 DEF Talk, ShownInv, Leaving
  <1>6. \A i \in DOMAIN messages' :
          Belongs(messages'[i], current', stored', stream')
    <2>1. CASE stream.session = NoChat
      <3>1. current = NoChat /\ current' = s
        BY <1>1, <2>1 DEF StreamInv, EventStart
      <3> QED
        BY <1>1, <1>2, <1>5, <3>1 DEF Belongs, Streaming
    <2>2. CASE stream.session # NoChat
      <3>1. current' = current /\ s = stream.session
        BY <2>2 DEF EventStart
      <3> QED
        BY <1>1, <1>2, <1>5, <3>1 DEF Belongs, Streaming
    <2> QED
      BY <2>1, <2>2
  <1>7. ShownInv(tx)'
    BY <1>1, <1>3, <1>6 DEF Talk, ShownInv, HistoryReady
  <1> QED
    BY <1>4, <1>7 DEF Talk

\* The server stores the pair of the stream.
LEMMA StoreTalk ==
  ASSUME ChatTypes, StreamInv, NEW tx, Talk(tx), ServerStores(TRUE)
  PROVE  Talk(tx)'
  <1> DEFINE s == stream.session
  <1>1. /\ stream \in Sends /\ stream' = [stream EXCEPT !.answered = TRUE] /\ stream.started
        /\ Streaming /\ ~stream.answered
        /\ stored' = [stored EXCEPT ![s] = @ \o stream.pair]
        /\ UNCHANGED <<current, messages, isSending, historySync, chatDue, history, sends>>
    BY DEF ServerStores, Streaming, ChatTypes
  <1>2. /\ stream' \in Sends /\ stream' # NoChat /\ stream'.n = stream.n /\ stream'.session = s
        /\ stream'.pair = stream.pair /\ stream'.answered = TRUE
    BY <1>1, SendAnswered
  <1>3. isSending /\ s \in ChatSessions /\ sends \in Nat /\ sends - 1 \in Nat /\ sends - 1 < sends
    BY <1>1 DEF StreamInv, SendingMatchesStream, Sends, ChatTypes
  <1> HIDE DEF s
  <1>4. /\ stored'[s] = stored[s] \o stream.pair
        /\ \A c \in ChatSessions \ {s} : stored'[c] = stored[c]
    BY <1>1, <1>3 DEF ChatTypes
  <1>5. /\ IsPair(stream.pair, sends, tx[sends]) /\ Turns(stored[s], tx, sends - 1)
        /\ stored[s] \in Seq(Messages) /\ stream.pair \in Seq(Messages)
    BY <1>1, <1>3 DEF Talk, ServerInv, ChatTypes, IsPair
  <1>6. Turns(stored'[s], tx, sends)
    BY <1>3, <1>4, <1>5, PairAppended
  <1>7. Within(stored[s], stored'[s]) /\ Within(stream.pair, stored'[s])
    BY <1>4, <1>5, WithinAppended
  <1>8. \A c \in ChatSessions : Within(stored[c], stored'[c])
    BY <1>4, <1>7, WithinAll
  <1>9. \A c \in ChatSessions : Turns(stored'[c], tx, sends)
    BY <1>4, <1>6 DEF Talk, ServerInv
  <1>10. \A c \in ChatSessions : Known(history[c], stored'[c], tx, sends)
    BY <1>8, WithinAll DEF Talk, ServerInv, Known
  <1>11. ServerInv(tx)'
    BY <1>1, <1>2, <1>5, <1>7, <1>9, <1>10 DEF ServerInv
  <1>12. \A m : Belongs(m, current, stored, stream) => Belongs(m, current', stored', stream')
    <2> SUFFICES ASSUME NEW m, Belongs(m, current, stored, stream)
                 PROVE  Belongs(m, current', stored', stream')
      OBVIOUS
    <2>1. CASE current # NoChat /\ \E j \in DOMAIN stored[current] : SameTurn(m, stored[current][j])
      <3>1. current \in ChatSessions
        BY <2>1 DEF ChatTypes, SessionIds
      <3>2. Within(stored[current], stored'[current])
        BY <1>8, <3>1
      <3>3. PICK j \in DOMAIN stored[current] : SameTurn(m, stored[current][j])
        BY <2>1
      <3>4. PICK k \in DOMAIN stored'[current] : SameTurn(stored[current][j], stored'[current][k])
        BY <3>2 DEF Within
      <3>5. SameTurn(m, stored'[current][k])
        BY <3>3, <3>4 DEF SameTurn
      <3> QED
        BY <1>1, <2>1, <3>4, <3>5 DEF Belongs
    <2>2. CASE stream # NoChat /\ stream.session = current /\ m.n = stream.n
      BY <1>1, <1>2, <2>2 DEF Belongs, Streaming, s
    <2> QED
      BY <2>1, <2>2 DEF Belongs
  <1>13. ShownInv(tx)'
    BY <1>1, <1>3, <1>12 DEF Talk, ShownInv, HistoryReady, Leaving
  <1> QED
    BY <1>11, <1>13 DEF Talk

\* The end of an answer changes none of the turns.
LEMMA SettledTurns ==
  ASSUME NEW tx, NEW b, Turns(messages, tx, b), NEW n, NEW after, after = Settled(n)
  PROVE  /\ Turns(after, tx, b) /\ DOMAIN after = DOMAIN messages
         /\ \A i \in DOMAIN messages : SameTurn(after[i], messages[i])
  <1>1. /\ messages \in Seq(Messages) /\ Len(messages) \in Nat
        /\ DOMAIN messages = 1 .. Len(messages)
    BY DEF Turns
  <1>2. \A m \in Messages : LET q == [m EXCEPT !.streaming = FALSE]
                            IN q \in Messages /\ q.role = m.role /\ q.n = m.n /\ q.text = m.text
    BY DEF Messages
  <1>3. after = [i \in 1 .. Len(messages) |->
                   IF messages[i].id = <<"local", "assistant", n>>
                   THEN [messages[i] EXCEPT !.streaming = FALSE] ELSE messages[i]]
    BY <1>1 DEF Settled
  <1>4. \A i \in 1 .. Len(messages) : messages[i] \in Messages
    BY <1>1
  <1>5. \A i \in 1 .. Len(messages) :
          /\ after[i] \in Messages /\ after[i].role = messages[i].role
          /\ after[i].n = messages[i].n /\ after[i].text = messages[i].text
    <2> SUFFICES ASSUME NEW i \in 1 .. Len(messages)
                 PROVE  /\ after[i] \in Messages /\ after[i].role = messages[i].role
                        /\ after[i].n = messages[i].n /\ after[i].text = messages[i].text
      OBVIOUS
    <2> DEFINE m == messages[i]
    <2>1. m \in Messages
      BY <1>4
    <2>2. after[i] = m \/ after[i] = [m EXCEPT !.streaming = FALSE]
      BY <1>3
    <2> HIDE DEF m
    <2>3. /\ after[i] \in Messages /\ after[i].role = m.role
          /\ after[i].n = m.n /\ after[i].text = m.text
      BY <1>2, <2>1, <2>2
    <2> QED
      BY <2>3 DEF m
  <1>6. after \in [1 .. Len(messages) -> Messages]
    BY <1>3, <1>5
  <1>7. after \in Seq(Messages) /\ DOMAIN after = 1 .. Len(messages)
    BY <1>1, <1>6, FunctionIsSequence
  <1>8. Turns(after, tx, b)
    <2>1. \A i \in DOMAIN after : after[i].n \in 1 .. b /\ after[i].text = tx[after[i].n]
      BY <1>1, <1>5, <1>7 DEF Turns
    <2>2. \A i \in DOMAIN after : after[i].role = "assistant" =>
            i > 1 /\ after[i - 1].role = "user" /\ after[i - 1].n = after[i].n
      <3> SUFFICES ASSUME NEW i \in DOMAIN after, after[i].role = "assistant"
                   PROVE  i > 1 /\ after[i - 1].role = "user" /\ after[i - 1].n = after[i].n
        OBVIOUS
      <3>1. i > 1 /\ messages[i - 1].role = "user" /\ messages[i - 1].n = messages[i].n
        BY <1>1, <1>5, <1>7 DEF Turns
      <3>2. i - 1 \in 1 .. Len(messages)
        BY <1>1, <1>7, <3>1
      <3> QED
        BY <1>5, <1>7, <3>1, <3>2
    <2>3. \A i, j \in DOMAIN after :
            i < j /\ after[i].role = after[j].role => after[i].n < after[j].n
      BY <1>1, <1>5, <1>7 DEF Turns
    <2> QED
      BY <1>7, <2>1, <2>2, <2>3 DEF Turns
  <1> QED
    BY <1>1, <1>5, <1>7, <1>8 DEF SameTurn

\* The stream ends, and the history is asked for again.
LEMMA EndTalk ==
  ASSUME ChatTypes, StreamInv, NEW tx, Talk(tx), StreamEnds(TRUE)
  PROVE  Talk(tx)'
  <1> DEFINE s == stream.session
  <1>1. /\ stream \in Sends /\ Streaming /\ stream.answered /\ chatDue = {} /\ chatDue' = {"sending"}
        /\ messages' = Settled(stream.n) /\ stream' = NoChat
        /\ UNCHANGED <<current, stored, history, sends>>
    BY DEF StreamEnds, Streaming, ChatTypes, serverVars, Idle
  <1>2. s \in ChatSessions /\ historySync' = s /\ current \in {NoChat, s} /\ stream.n = sends
    BY <1>1 DEF StreamInv, StreamEnds, Sends
  <1>3. ServerInv(tx)'
    BY <1>1 DEF Talk, ServerInv, Streaming
  <1>4. /\ Turns(messages', tx, sends) /\ DOMAIN messages' = DOMAIN messages
        /\ \A i \in DOMAIN messages : SameTurn(messages'[i], messages[i])
    BY <1>1, SettledTurns DEF Talk, ShownInv
  <1>5. /\ IsPair(stream.pair, sends, tx[sends]) /\ Within(stream.pair, stored[s])
    BY <1>1 DEF Talk, ServerInv
  <1>6. \A role \in {"user", "assistant"} : \E j \in DOMAIN stored[s] :
          stored[s][j].role = role /\ stored[s][j].n = sends
    <2>1. 1 \in DOMAIN stream.pair /\ 2 \in DOMAIN stream.pair
      BY <1>5 DEF IsPair
    <2>2. 1 \in 1 .. 2 /\ 2 \in 1 .. 2
      OBVIOUS
    <2>3. \E j \in DOMAIN stored[s] : stored[s][j].role = "user" /\ stored[s][j].n = sends
      BY <1>5, <2>1, <2>2 DEF IsPair, Within, SameTurn
    <2>4. \E j \in DOMAIN stored[s] : stored[s][j].role = "assistant" /\ stored[s][j].n = sends
      BY <1>5, <2>1, <2>2 DEF IsPair, Within, SameTurn
    <2> QED
      BY <2>3, <2>4
  <1> HIDE DEF s
  <1>7. \A i \in DOMAIN messages' : Belongs(messages'[i], current', stored', stream')
    <2> SUFFICES ASSUME NEW i \in DOMAIN messages
                 PROVE  Belongs(messages'[i], current', stored', stream')
      BY <1>4
    <2>1. /\ Belongs(messages[i], current, stored, stream)
          /\ messages[i].role \in {"user", "assistant"}
          /\ SameTurn(messages'[i], messages[i])
      <3>1. messages[i] \in Messages
        BY DEF Talk, ShownInv, Turns
      <3>2. messages[i].role \in {"user", "assistant"}
        BY <3>1 DEF Messages
      <3>3. Belongs(messages[i], current, stored, stream)
        BY <1>1 DEF Talk, ShownInv, Leaving
      <3> QED
        BY <1>4, <3>2, <3>3
    <2>2. CASE current # NoChat /\ \E j \in DOMAIN stored[current] :
                                     SameTurn(messages[i], stored[current][j])
      BY <1>1, <2>1, <2>2 DEF Belongs, SameTurn
    <2>3. CASE stream # NoChat /\ stream.session = current /\ messages[i].n = stream.n
      <3>1. current = s /\ current # NoChat
        BY <1>2, <2>3, ChatAssumption DEF s
      <3>2. PICK j \in DOMAIN stored[s] : stored[s][j].role = messages[i].role /\ stored[s][j].n = sends
        BY <1>6, <2>1
      <3>3. SameTurn(messages'[i], stored[s][j])
        BY <1>2, <2>1, <2>3, <3>2 DEF SameTurn
      <3> QED
        BY <1>1, <3>1, <3>2, <3>3 DEF Belongs
    <2> QED
      BY <2>1, <2>2, <2>3 DEF Belongs
  <1>8. ShownInv(tx)'
    <2>1. historySync' # NoChat /\ (current' # NoChat => historySync' = current')
      BY <1>1, <1>2, ChatAssumption
    <2> QED
      BY <1>1, <1>4, <1>7, <2>1 DEF ShownInv, HistoryReady
  <1> QED
    BY <1>3, <1>8 DEF Talk

\* Nothing but what is on its way changes, and that only to nothing.
LEMMA InvalidateTalk ==
  ASSUME ChatTypes, NEW tx, Talk(tx), NEW s, Invalidate(s),
         UNCHANGED <<current, messages, stream, isSending, chatDue, stored, sends>>, chatDue = {},
         \/ historySync' = historySync
         \/ s = historySync /\ (s \in ChatSessions => history'[s].flight = NoData)
  PROVE  Talk(tx)'
  <1>1. /\ \A t \in ChatSessions \ {s} : history'[t] = history[t]
        /\ s \in ChatSessions => history'[s] = Invalidated(history[s], s = current)
    BY InvalidateType
  <1>2. (s = current) \in BOOLEAN
    OBVIOUS
  <1>3. ASSUME NEW t \in ChatSessions PROVE Known(history'[t], stored[t], tx, sends)
    <2>1. Known(history[t], stored[t], tx, sends)
      BY DEF Talk, ServerInv
    <2>2. CASE t = s
      <3> DEFINE shown == s = current
      <3>1. history[t] \in QueryOf(Seq(Messages)) /\ shown \in BOOLEAN
        BY DEF ChatTypes
      <3>2. history'[t] = Invalidated(history[t], shown)
        BY <1>1, <2>2
      <3> HIDE DEF shown
      <3> QED
        BY <2>1, <3>1, <3>2, KnownKept
    <2>3. CASE t # s
      BY <1>1, <2>1, <2>3
    <2> QED
      BY <2>2, <2>3
  <1>4. ServerInv(tx)'
    BY <1>3 DEF Talk, ServerInv, Streaming
  <1>5. ASSUME current # NoChat, ~isSending, historySync' # current, history'[current].flight # NoData
        PROVE  Within(messages, history'[current].flight)
    <2>1. current \in ChatSessions
      BY <1>5 DEF ChatTypes, SessionIds
    <2>2. history'[current].flight = history[current].flight
      <3>1. CASE s = current
        BY <1>1, <1>2, <1>5, <2>1, <3>1, QueryTypes, ZenonT(60) DEF ChatTypes
      <3>2. CASE s # current
        BY <1>1, <2>1, <3>2
      <3> QED
        BY <3>1, <3>2
    <2>3. historySync # current
      BY <1>5, <2>1
    <2> QED
      BY <1>5, <2>2, <2>3 DEF Talk, ShownInv
  <1>6. ShownInv(tx)'
    BY <1>5 DEF Talk, ShownInv, Leaving, Idle
  <1> QED
    BY <1>4, <1>6 DEF Talk

\* A fetch of a history that fits reads what is stored.
LEMMA FetchWhole ==
  ASSUME ChatTypes, HistoriesFit, FetchHistory
  PROVE  /\ current \in ChatSessions
         /\ history' = [history EXCEPT ![current] = Fetched(@, stored[current])]
  <1>1. /\ current \in ChatSessions
        /\ history' = [history EXCEPT ![current] = Fetched(@, OldestPage(stored[current]))]
    BY DEF FetchHistory, ChatTypes, SessionIds
  <1>2. OldestPage(stored[current]) = stored[current]
    BY <1>1, OldestPageProperties DEF ChatTypes, HistoriesFit
  <1> QED
    BY <1>1, <1>2

LEMMA FetchTalk ==
  ASSUME ChatTypes, StreamInv, HistoriesFit, NEW tx, Talk(tx), FetchHistory
  PROVE  Talk(tx)'
  <1> DEFINE q == Fetched(history[current], stored[current])
  <1>1. /\ current \in ChatSessions /\ current # NoChat /\ history' = [history EXCEPT ![current] = q]
        /\ UNCHANGED <<current, messages, stream, isSending, historySync, chatDue, stored, sends>>
    BY FetchWhole DEF FetchHistory, hookVars, serverVars
  <1>2. /\ history[current] \in QueryOf(Seq(Messages)) /\ stored[current] \in Seq(Messages)
        /\ Turns(stored[current], tx, sends) /\ Known(history[current], stored[current], tx, sends)
    BY <1>1 DEF ChatTypes, Talk, ServerInv
  <1>3. Known(q, stored[current], tx, sends)
    BY <1>2, KnownKept
  <1>4. q.data = history[current].data /\ q.flight = stored[current]
    BY <1>2 DEF Fetched, QueryOf
  <1> HIDE DEF q
  <1>5. ServerInv(tx)'
    BY <1>1, <1>3, CacheStep DEF Talk
  <1>6. history'[current] = q
    BY <1>1 DEF ChatTypes
  <1>7. ~isSending => Within(messages, stored[current])
    BY <1>1 DEF StreamInv, SendingMatchesStream, Streaming, Talk, ShownInv, Leaving, Belongs, Within
  <1>8. ~Idle' /\ HistoryReady' => Within(messages', Items')
    BY <1>1, <1>4, <1>6 DEF Talk, ShownInv, HistoryReady, Items, Idle
  <1>9. ShownInv(tx)'
    BY <1>1, <1>4, <1>6, <1>7, <1>8 DEF Talk, ShownInv, Leaving
  <1> QED
    BY <1>5, <1>9 DEF Talk

\* The answer of a fetch becomes the history of the cache.
LEMMA ArriveTalk ==
  ASSUME ChatTypes, NEW tx, Talk(tx), NEW s \in ChatSessions, HistoryArrives(s)
  PROVE  Talk(tx)'
  <1> DEFINE q == Answered(history[s])
  <1>1. /\ history' = [history EXCEPT ![s] = q] /\ history[s].flight # NoData /\ chatDue = {}
        /\ chatDue' = {} \/ (chatDue' = {"items"} /\ s = current)
        /\ UNCHANGED <<current, messages, stream, isSending, historySync, stored, sends>>
    BY DEF HistoryArrives, HasAnswer, Idle, hookVars, serverVars
  <1>2. history[s] \in QueryOf(Seq(Messages)) /\ Known(history[s], stored[s], tx, sends)
    BY DEF ChatTypes, Talk, ServerInv
  <1>3. /\ Known(q, stored[s], tx, sends) /\ q.data = history[s].flight /\ q.flight = NoData
    BY <1>2, KnownKept, QueryTypes
  <1> HIDE DEF q
  <1>4. ServerInv(tx)'
    BY <1>1, <1>3, CacheStep DEF Talk
  <1>5. /\ history'[s] = q /\ \A t \in ChatSessions \ {s} : history'[t] = history[t]
    BY <1>1 DEF ChatTypes
  <1>6. ~Idle' /\ HistoryReady' => Within(messages', Items')
    BY <1>1, <1>3, <1>5 DEF Talk, ShownInv, HistoryReady, Items, Idle
  <1>7. current # NoChat /\ ~isSending /\ historySync # current /\ history'[current].flight # NoData =>
          Within(messages, history'[current].flight)
    <2> SUFFICES ASSUME current # NoChat, ~isSending, historySync # current,
                        history'[current].flight # NoData
                 PROVE  Within(messages, history'[current].flight)
      OBVIOUS
    <2>1. current \in ChatSessions \ {s}
      BY <1>3, <1>5 DEF ChatTypes, SessionIds
    <2> QED
      BY <1>5, <2>1 DEF Talk, ShownInv
  <1>8. ShownInv(tx)'
    BY <1>1, <1>6, <1>7 DEF Talk, ShownInv, Leaving
  <1> QED
    BY <1>4, <1>8 DEF Talk

\* A list that is emptied while no answer is streamed.
LEMMA EmptyTalk ==
  ASSUME ChatTypes, NEW tx, Talk(tx), messages' = <<>>, stream' = NoChat,
         UNCHANGED <<stored, history, sends>>
  PROVE  Talk(tx)'
  <1>1. \A other : Turns(messages', tx, sends') /\ Within(messages', other) /\ DOMAIN messages' = {}
    BY EmptyTurns
  <1>2. ServerInv(tx)'
    BY DEF Talk, ServerInv, Streaming
  <1>3. ShownInv(tx)'
    BY <1>1 DEF ShownInv
  <1> QED
    BY <1>2, <1>3 DEF Talk

\* The page shows no session any more, the stream goes on.
LEMMA LeaveTalk ==
  ASSUME NEW tx, Talk(tx), chatDue = {}, current' = NoChat,
         chatDue' = IF current = NoChat THEN {} ELSE {"session"},
         UNCHANGED <<messages, stream, isSending, historySync, stored, history, sends>>
  PROVE  Talk(tx)'
  <1>1. ServerInv(tx)'
    BY DEF Talk, ServerInv, Streaming
  <1>2. Leaving' \/ current = NoChat
    BY DEF Leaving
  <1>3. ShownInv(tx)'
    BY <1>2 DEF Talk, ShownInv, Leaving, HistoryReady, Idle
  <1> QED
    BY <1>1, <1>3 DEF Talk

-----------------------------------------------------------------------------
\* No step takes a message from what is stored.
LEMMA StoredStays ==
  ASSUME ChatTypes, [ChatNext]_chatVars, NEW s \in ChatSessions
  PROVE  Len(stored[s]) <= Len(stored'[s])
  <1>0. stored[s] \in Seq(Messages) /\ Len(stored[s]) \in Nat
    BY DEF ChatTypes
  <1>1. ASSUME Streaming, stored' = [stored EXCEPT ![stream.session] = @ \o stream.pair]
        PROVE  Len(stored[s]) <= Len(stored'[s])
    <2>1. stream.pair \in Seq(Messages)
      BY <1>1 DEF ChatTypes, Streaming, Sends
    <2> DEFINE longer == stored[s] \o stream.pair
    <2>2. Len(longer) = Len(stored[s]) + Len(stream.pair) /\ Len(stream.pair) \in Nat
      BY <1>0, <2>1
    <2>3. stored'[s] \in {stored[s], longer}
      BY <1>1 DEF ChatTypes
    <2> HIDE DEF longer
    <2>4. Len(stored'[s]) = Len(stored[s]) \/ Len(stored'[s]) = Len(longer)
      BY <2>3, Zenon
    <2> DEFINE before == Len(stored[s])
               after == Len(stored'[s])
               more == Len(stream.pair)
    <2>5. before \in Nat /\ more \in Nat /\ after \in {before, before + more}
      BY <1>0, <2>2, <2>4, Zenon
    <2> HIDE DEF before, after, more
    <2>6. before <= after
      BY <2>5
    <2> QED
      BY <2>6 DEF before, after
  <1>2. ASSUME UNCHANGED stored PROVE Len(stored[s]) <= Len(stored'[s])
    BY <1>0, <1>2
  <1>3. AbortStores => Len(stored[s]) <= Len(stored'[s])
    BY <1>1, <1>2 DEF AbortStores
  <1>4. CASE RunChatEffects \/ SyncTimer \/ FetchHistory \/ \E t \in Texts : SendMessage(t)
    BY <1>2, <1>4 DEF RunChatEffects, SyncTimer, FetchHistory, SendMessage, serverVars
  <1>5. CASE \E c \in ChatSessions : EventStart(c) \/ HistoryArrives(c)
    BY <1>2, <1>5 DEF EventStart, HistoryArrives, serverVars
  <1>6. CASE \E c \in ChatSessions : SelectSession(c)
    BY <1>2, <1>3, <1>6 DEF SelectSession
  <1>7. CASE \E ok \in BOOLEAN : ServerStores(ok)
    BY <1>1, <1>2, <1>7 DEF ServerStores
  <1>8. CASE \E ok \in BOOLEAN : StreamEnds(ok)
    BY <1>2, <1>8 DEF StreamEnds, serverVars
  <1>9. CASE ClearMessages \/ StopGeneration
    BY <1>3, <1>9 DEF ClearMessages, StopGeneration
  <1>10. CASE PaletteNewSession \/ \E r \in ChatRepos : SwitchRepository(r)
    BY <1>2, <1>10 DEF PaletteNewSession, SwitchRepository, serverVars
  <1>11. CASE UNCHANGED chatVars
    BY <1>2, <1>11 DEF chatVars, serverVars
  <1> QED
    BY <1>4, <1>5, <1>6, <1>7, <1>8, <1>9, <1>10, <1>11 DEF ChatNext

\* So histories that fit after a step did before it.
LEMMA FitBefore == ASSUME ChatTypes, ChatTypes', [ChatNext]_chatVars, HistoriesFit' PROVE HistoriesFit
  <1> SUFFICES ASSUME NEW s \in ChatSessions PROVE Len(stored[s]) <= HistoryLimit
    BY DEF HistoriesFit
  <1>1. Len(stored[s]) <= Len(stored'[s]) /\ Len(stored'[s]) <= HistoryLimit
    BY StoredStays DEF HistoriesFit
  <1>2. Len(stored[s]) \in Nat /\ Len(stored'[s]) \in Nat
    BY DEF ChatTypes
  <1> QED
    BY <1>1, <1>2, ChatBounds

\* What was not lost in a step was not lost before.
LEMMA TroubleStays ==
  [ChatNext]_chatVars /\ ChatTypes /\ ChatTypes' /\ Untroubled' => Untroubled
  <1> SUFFICES ASSUME [ChatNext]_chatVars, ChatTypes, ChatTypes', ~gap', ~skipped', HistoriesFit'
               PROVE  ~gap /\ ~skipped
    BY FitBefore DEF Untroubled
  <1>1. CASE RunChatEffects
    BY <1>1 DEF RunChatEffects
  <1>2. CASE \E t \in Texts : SendMessage(t)
    BY <1>2 DEF SendMessage
  <1>3. CASE \E s \in ChatSessions : EventStart(s) \/ HistoryArrives(s)
    BY <1>3 DEF EventStart, HistoryArrives
  <1>4. CASE \E s \in ChatSessions : SelectSession(s)
    <2> PICK s \in ChatSessions : SelectSession(s)
      BY <1>4
    <2>1. skipped' = skipped /\ (gap' = gap \/ Abort)
      BY DEF SelectSession
    <2>2. ~gap
      <3>1. Abort => ~gap
        BY Zenon DEF Abort
      <3> QED
        BY <2>1, <3>1
    <2> QED
      BY <2>1, <2>2
  <1>5. CASE \E ok \in BOOLEAN : ServerStores(ok) \/ StreamEnds(ok)
    <2> PICK ok \in BOOLEAN : ServerStores(ok) \/ StreamEnds(ok)
      BY <1>5
    <2>1. CASE ServerStores(ok)
      <3>1. skipped' = skipped
        BY <2>1 DEF ServerStores
      <3>2. ~gap
        BY <2>1, Zenon DEF ServerStores
      <3> QED
        BY <3>1, <3>2
    <2>2. CASE StreamEnds(ok)
      BY <2>2, Zenon DEF StreamEnds
    <2> QED
      BY <2>1, <2>2
  <1>6. CASE SyncTimer \/ FetchHistory
    <2>1. gap' = gap
      BY <1>6 DEF SyncTimer, FetchHistory
    <2>2. CASE SyncTimer
      <3>1. ~skipped
        BY <2>2, Zenon DEF SyncTimer
      <3> QED
        BY <2>1, <3>1
    <2>3. CASE FetchHistory
      BY <2>1, <2>3 DEF FetchHistory
    <2> QED
      BY <1>6, <2>2, <2>3
  <1>7. CASE ClearMessages \/ StopGeneration
    <2>1. skipped' = skipped /\ Abort
      BY <1>7 DEF ClearMessages, StopGeneration
    <2> QED
      BY <2>1, Zenon DEF Abort
  <1>8. CASE PaletteNewSession \/ \E r \in ChatRepos : SwitchRepository(r)
    BY <1>8 DEF PaletteNewSession, SwitchRepository
  <1>9. CASE UNCHANGED chatVars
    BY <1>9 DEF chatVars
  <1> QED
    BY <1>1, <1>2, <1>3, <1>4, <1>5, <1>6, <1>7, <1>8, <1>9 DEF ChatNext

\* While nothing was torn or hidden, every step keeps the talk.
LEMMA TalkStep ==
  ASSUME ChatTypes, StreamInv, [ChatNext]_chatVars, Untroubled, Untroubled',
         NEW tx \in TextTables, Talk(tx)
  PROVE  \E ty \in TextTables : Talk(ty)'
  <1>1. CASE RunChatEffects
    BY <1>1, EffectsTalk
  <1>2. CASE \E t \in Texts : SendMessage(t)
    BY <1>2, SendTalk
  <1>3. CASE \E s \in ChatSessions : EventStart(s)
    BY <1>3, StartTalk
  <1>4. CASE \E s \in ChatSessions : HistoryArrives(s)
    BY <1>4, ArriveTalk
  <1>5. CASE \E s \in ChatSessions : SelectSession(s)
    <2> PICK s \in ChatSessions : SelectSession(s)
      BY <1>5
    <2>1. CASE s = current
      <3>1. /\ Invalidate(s) /\ chatDue = {}
            /\ UNCHANGED <<current, messages, stream, isSending, chatDue, stored, sends, historySync>>
        BY <2>1 DEF SelectSession, Move, Idle
      <3>2. Talk(tx)'
        BY <3>1, InvalidateTalk
      <3> QED
        BY <3>2
    <2>2. CASE s # current
      <3>1. Abort /\ AbortStores /\ messages' = <<>> /\ UNCHANGED <<history, sends>>
        BY <2>2 DEF SelectSession
      <3>2. stream' = NoChat /\ stored' = stored
        BY <3>1, AbortKeeps DEF Untroubled
      <3>3. Talk(tx)'
        BY <3>1, <3>2, EmptyTalk
      <3> QED
        BY <3>3
    <2> QED
      BY <2>1, <2>2
  <1>6. CASE \E ok \in BOOLEAN : ServerStores(ok)
    <2>1. ServerStores(TRUE)
      BY <1>6 DEF ServerStores, Untroubled
    <2> QED
      BY <2>1, StoreTalk
  <1>7. CASE \E ok \in BOOLEAN : StreamEnds(ok)
    <2>1. StreamEnds(TRUE)
      BY <1>7 DEF StreamEnds, Untroubled
    <2> QED
      BY <2>1, EndTalk
  <1>8. CASE SyncTimer
    <2>1. /\ Invalidate(historySync) /\ chatDue = {}
          /\ UNCHANGED <<current, messages, stream, isSending, chatDue, stored, sends>>
          /\ history'[historySync].flight = NoData
      BY <1>8 DEF SyncTimer, Idle, serverVars, Untroubled
    <2>2. Talk(tx)'
      BY <2>1, InvalidateTalk
    <2> QED
      BY <2>2
  <1>9. CASE FetchHistory
    BY <1>9, FetchTalk DEF Untroubled
  <1>10. CASE ClearMessages
    <2>1. Abort /\ AbortStores /\ messages' = <<>> /\ UNCHANGED <<history, sends>>
      BY <1>10 DEF ClearMessages
    <2>2. stream' = NoChat /\ stored' = stored
      BY <2>1, AbortKeeps DEF Untroubled
    <2>3. Talk(tx)'
      BY <2>1, <2>2, EmptyTalk
    <2> QED
      BY <2>3
  <1>11. CASE StopGeneration
    BY <1>11 DEF StopGeneration, Abort, Untroubled
  <1>12. CASE PaletteNewSession \/ \E r \in ChatRepos : SwitchRepository(r)
    <2>1. /\ chatDue = {} /\ current' = NoChat
          /\ chatDue' = IF current = NoChat THEN {} ELSE {"session"}
          /\ UNCHANGED <<messages, stream, isSending, historySync, stored, history, sends>>
      BY <1>12 DEF PaletteNewSession, SwitchRepository, Move, Idle, Show, hookVars, serverVars
    <2>2. Talk(tx)'
      BY <2>1, LeaveTalk
    <2> QED
      BY <2>2
  <1>13. CASE UNCHANGED chatVars
    <2>1. UNCHANGED <<current, messages, stream, isSending, historySync, chatDue, stored, history,
                      sends>>
      BY <1>13 DEF chatVars, hookVars, serverVars
    <2>2. ServerInv(tx)' /\ ShownInv(tx)'
      BY <2>1 DEF Talk, ServerInv, ShownInv, Streaming, Leaving, Idle, HistoryReady, Items
    <2> QED
      BY <2>2 DEF Talk
  <1> QED
    BY <1>1, <1>2, <1>3, <1>4, <1>5, <1>6, <1>7, <1>8, <1>9, <1>10, <1>11, <1>12, <1>13
    DEF ChatNext

\* The invariant holds of a page just loaded.
LEMMA ChatInvInit == ChatInit => ChatInv
  <1> SUFFICES ASSUME ChatInit PROVE ChatInv
    OBVIOUS
  <1> DEFINE tx == [i \in Nat |-> NoChat]
  <1>1. ChatTypes
    <2>1. EmptyQuery \in QueryOf(Seq(Messages)) /\ <<>> \in Seq(Messages)
      BY DEF EmptyQuery, QueryOf
    <2> HIDE DEF EmptyQuery, QueryOf
    <2> QED
      BY <2>1 DEF ChatInit, ChatTypes, SessionIds
  <1>2. StreamInv
    BY DEF ChatInit, StreamInv, SendingMatchesStream, Streaming
  <1>3. tx \in TextTables
    BY DEF TextTables
  <1> HIDE DEF tx
  <1>4. \A seq, b : seq = <<>> => Turns(seq, tx, b) /\ DOMAIN seq = {}
    BY EmptyTurns
  <1>5. \A s \in ChatSessions : history[s].data = NoData /\ history[s].flight = NoData
                                /\ stored[s] = <<>>
    BY DEF ChatInit, EmptyQuery
  <1>6. ServerInv(tx)
    BY <1>4, <1>5 DEF ChatInit, ServerInv, Known, Streaming
  <1>7. ShownInv(tx)
    BY <1>4 DEF ChatInit, ShownInv, Idle
  <1> QED
    BY <1>1, <1>2, <1>3, <1>6, <1>7 DEF ChatInv, Talk

\* Every step keeps the invariant.
LEMMA ChatInvStep == ChatInv /\ [ChatNext]_chatVars => ChatInv'
  <1> SUFFICES ASSUME ChatInv, [ChatNext]_chatVars PROVE ChatInv'
    OBVIOUS
  <1>1. ChatTypes' /\ StreamInv'
    BY ChatBaseStep DEF ChatInv, ChatBase
  <1>2. ASSUME Untroubled' PROVE \E ty \in TextTables : Talk(ty)'
    <2>1. Untroubled
      BY <1>1, <1>2, TroubleStays DEF ChatInv
    <2>2. PICK tx \in TextTables : Talk(tx)
      BY <2>1 DEF ChatInv
    <2> QED
      BY <1>2, <2>1, <2>2, TalkStep DEF ChatInv
  <1> QED
    BY <1>1, <1>2 DEF ChatInv

\* The invariant of the chat holds always.
THEOREM ChatInvariant == ChatSpec => []ChatInv
  BY ChatInvInit, ChatInvStep, PTL DEF ChatSpec

\* The composer is disabled exactly while the hook holds the controller of a stream.
THEOREM SendingAlwaysMatches == ChatSpec => []SendingMatchesStream
  <1>1. ChatInv => SendingMatchesStream
    BY DEF ChatInv, StreamInv
  <1> QED
    BY <1>1, ChatInvariant, PTL

\* For every number of sends, sessions and moves: while every send ended as one stored pair,
\* no older history was shown and no session has more than HistoryLimit messages, each answer stands right below its own question.
THEOREM AnswersStayUnder == ChatSpec => []AnswersUnderQuestions
  <1>1. ChatInv => AnswersUnderQuestions
    BY DEF ChatInv, Untroubled, Talk, ShownInv, Turns, AnswersUnderQuestions
  <1> QED
    BY <1>1, ChatInvariant, PTL

-----------------------------------------------------------------------------
(* The chat at rest *)

\* Asking, answering and invalidating keep an entry true to the value of the server, and
\* at rest it has that value.
LEMMA QueryOwes ==
  ASSUME NEW D, NEW q \in QueryOf(D), NEW v \in D
  PROVE  /\ NeedsFetch(q) => Owes(Fetched(q, v), v)
         /\ HasAnswer(q) /\ Owes(q, v) => Owes(Answered(q), v)
         /\ \A shown \in BOOLEAN :
              Owes(q, v) \/ Invalidated(q, shown).flight = NoData => Owes(Invalidated(q, shown), v)
         /\ CacheRests(q) /\ Owes(q, v) => q.data = v
  <1>1. Fetched(q, v).flight = v /\ Fetched(q, v).data = q.data /\ Fetched(q, v).invalid = q.invalid
    BY DEF QueryOf, Fetched
  <1>2. HasAnswer(q) /\ Owes(q, v) => Owes(Answered(q), v)
    BY DEF HasAnswer, Owes, Answered
  <1>3. ASSUME NEW shown \in BOOLEAN
        PROVE  /\ Invalidated(q, shown).invalid = TRUE
               /\ Invalidated(q, shown).flight \in {q.flight, NoData}
    BY DEF QueryOf, Invalidated
  <1>4. CacheRests(q) /\ Owes(q, v) => q.data = v
    BY DEF CacheRests, NeedsFetch, HasAnswer, Owes, QueryOf
  <1>5. NeedsFetch(q) => Owes(Fetched(q, v), v)
    BY <1>1 DEF NeedsFetch, Owes, QueryOf
  <1>6. ASSUME NEW shown \in BOOLEAN, Owes(q, v) \/ Invalidated(q, shown).flight = NoData
        PROVE  Owes(Invalidated(q, shown), v)
    BY <1>3, <1>6 DEF Owes
  <1> QED
    BY <1>2, <1>4, <1>5, <1>6

\* Each copy of a history is true to what is stored, but where its refetch is still to come.
CopiesTrue ==
  \A s \in ChatSessions : \/ Owes(history[s], stored[s]) \/ historySync = s
                          \/ Streaming /\ stream.answered /\ stream.session = s
\* Unless an answer is streamed, what the cache has of the session is on the page.
NothingHidden ==
  Idle /\ current # NoChat /\ Items # NoData /\ ~isSending => Within(Items, messages)

\* A step that changes one copy, or none, and neither the store nor the stream.
LEMMA CopyStep ==
  ASSUME ChatTypes, CopiesTrue, NEW s \in ChatSessions,
         \A t \in ChatSessions \ {s} : history'[t] = history[t] /\ (historySync = t => historySync' = t),
         Owes(history[s], stored[s]) => Owes(history'[s], stored[s]),
         historySync = s /\ historySync' # s => Owes(history'[s], stored[s]),
         UNCHANGED <<stored, stream>>
  PROVE  CopiesTrue'
  <1>1. ASSUME NEW t \in ChatSessions
        PROVE  \/ Owes(history'[t], stored'[t]) \/ historySync' = t
               \/ Streaming' /\ stream'.answered /\ stream'.session = t
    <2>1. \/ Owes(history[t], stored[t]) \/ historySync = t
          \/ Streaming /\ stream.answered /\ stream.session = t
      BY DEF CopiesTrue
    <2> QED
      BY <2>1 DEF Streaming
  <1> QED
    BY <1>1 DEF CopiesTrue

\* Every step keeps the copies true.
LEMMA CopiesStep ==
  ASSUME ChatTypes, StreamInv, [ChatNext]_chatVars, Untroubled, Untroubled', CopiesTrue
  PROVE  CopiesTrue'
  <1>0. /\ history \in [ChatSessions -> QueryOf(Seq(Messages))]
        /\ stored \in [ChatSessions -> Seq(Messages)]
        /\ historySync \in SessionIds /\ current \in SessionIds
        /\ ~gap /\ ~skipped /\ ~gap' /\ ~skipped'
    BY DEF ChatTypes, Untroubled
  <1>1. ASSUME UNCHANGED <<history, stored, historySync>>, stream' = stream \/ ~Streaming
        PROVE  CopiesTrue'
    BY <1>1 DEF CopiesTrue, Streaming
  \* Everything but the stream is as it was; an answered stream stays one, of its session.
  <1>2. CASE \E t \in Texts : SendMessage(t)
    <2>1. UNCHANGED <<history, stored, historySync>> /\ ~isSending
      BY <1>2 DEF SendMessage, serverVars
    <2> QED
      BY <1>1, <2>1 DEF StreamInv, SendingMatchesStream
  <1>3. CASE \E s \in ChatSessions : EventStart(s)
    <2>1. /\ UNCHANGED <<history, stored, historySync>> /\ ~stream.started /\ Streaming
      BY <1>3 DEF EventStart
    <2>2. ~stream.answered
      BY <2>1 DEF StreamInv
    <2> QED
      BY <2>1, <2>2 DEF CopiesTrue
  <1>4. CASE \E ok \in BOOLEAN : ServerStores(ok)
    <2>1. /\ ServerStores(TRUE)
      BY <1>0, <1>4 DEF ServerStores
    <2>2. /\ UNCHANGED <<history, historySync>> /\ Streaming
          /\ stream' = [stream EXCEPT !.answered = TRUE]
          /\ stored' = [stored EXCEPT ![stream.session] = @ \o stream.pair]
          /\ ~stream.answered
      BY <2>1 DEF ServerStores
    <2>3. /\ Streaming' /\ stream'.answered = TRUE /\ stream'.session = stream.session
      BY <2>2, SendAnswered DEF ChatTypes, Streaming
    <2>4. \A s \in ChatSessions : s # stream.session => stored'[s] = stored[s]
      BY <1>0, <2>2
    <2> QED
      BY <2>2, <2>3, <2>4 DEF CopiesTrue
  <1>5. CASE \E ok \in BOOLEAN : StreamEnds(ok)
    <2>1. /\ UNCHANGED <<history, stored>> /\ stream' = NoChat
          /\ historySync' = IF stream.session # NoChat THEN stream.session ELSE historySync
          /\ historySync \in {NoChat, stream.session}
      BY <1>0, <1>5 DEF StreamEnds, serverVars
    <2> QED
      BY <2>1, ChatAssumption DEF CopiesTrue, Streaming
  <1>6. CASE SyncTimer
    <2>1. /\ historySync # NoChat /\ Invalidate(historySync) /\ historySync' = NoChat
          /\ UNCHANGED <<stored, stream>> /\ history'[historySync].flight = NoData
      BY <1>0, <1>6 DEF SyncTimer, serverVars
    <2> PICK s \in ChatSessions : s = historySync
      BY <1>0, <2>1 DEF SessionIds
    <2>2. /\ \A t \in ChatSessions \ {s} : history'[t] = history[t]
          /\ history'[s] = Invalidated(history[s], s = current)
      BY <2>1, InvalidateType
    <2>3. Owes(history'[s], stored[s])
      <3> DEFINE shown == s = current
      <3>1. /\ history[s] \in QueryOf(Seq(Messages)) /\ stored[s] \in Seq(Messages)
            /\ shown \in BOOLEAN
        BY <1>0
      <3>2. history'[s] = Invalidated(history[s], shown) /\ history'[s].flight = NoData
        BY <2>1, <2>2
      <3> HIDE DEF shown
      <3>3. Owes(Invalidated(history[s], shown), stored[s])
        BY <3>1, <3>2, QueryOwes
      <3> QED
        BY <3>2, <3>3
    <2> QED
      BY <2>1, <2>2, <2>3, CopyStep
  <1>7. CASE FetchHistory
    <2>1. /\ history' = [history EXCEPT ![current] = Fetched(@, stored[current])]
          /\ current \in ChatSessions /\ NeedsFetch(history[current])
          /\ UNCHANGED <<stored, stream, historySync>>
      BY <1>0, <1>7, FetchWhole DEF FetchHistory, hookVars, serverVars, Untroubled
    <2>2. /\ \A t \in ChatSessions \ {current} : history'[t] = history[t]
          /\ history'[current] = Fetched(history[current], stored[current])
      BY <1>0, <2>1
    <2>3. Owes(history'[current], stored[current])
      BY <1>0, <2>1, <2>2, QueryOwes
    <2> QED
      BY <2>1, <2>2, <2>3, CopyStep
  <1>8. CASE \E s \in ChatSessions : HistoryArrives(s)
    <2> PICK s \in ChatSessions : HistoryArrives(s)
      BY <1>8
    <2>1. /\ history' = [history EXCEPT ![s] = Answered(@)] /\ HasAnswer(history[s])
          /\ UNCHANGED <<stored, stream, historySync>>
      BY DEF HistoryArrives, hookVars, serverVars
    <2>2. /\ \A t \in ChatSessions \ {s} : history'[t] = history[t]
          /\ history'[s] = Answered(history[s])
      BY <1>0, <2>1
    <2>3. Owes(history[s], stored[s]) => Owes(history'[s], stored[s])
      BY <1>0, <2>1, <2>2, QueryOwes
    <2> QED
      BY <2>1, <2>2, <2>3, CopyStep
  <1>9. CASE \E s \in ChatSessions : SelectSession(s)
    <2> PICK s \in ChatSessions : SelectSession(s)
      BY <1>9
    <2>1. CASE s = current
      <3>1. Invalidate(s) /\ UNCHANGED <<stored, stream, historySync>>
        BY <2>1 DEF SelectSession
      <3>2. /\ \A t \in ChatSessions \ {s} : history'[t] = history[t]
            /\ history'[s] = Invalidated(history[s], s = current)
        BY <3>1, InvalidateType
      <3>3. Owes(history[s], stored[s]) => Owes(history'[s], stored[s])
        <4> DEFINE shown == s = current
        <4>1. /\ history[s] \in QueryOf(Seq(Messages)) /\ stored[s] \in Seq(Messages)
              /\ shown \in BOOLEAN
          BY <1>0
        <4>2. history'[s] = Invalidated(history[s], shown)
          BY <3>2
        <4> HIDE DEF shown
        <4>3. Owes(history[s], stored[s]) => Owes(Invalidated(history[s], shown), stored[s])
          BY <4>1, QueryOwes
        <4> QED
          BY <4>2, <4>3
      <3> QED
        BY <3>1, <3>2, <3>3, CopyStep
    <2>2. CASE s # current
      <3>1. Abort /\ AbortStores /\ UNCHANGED <<history, historySync>>
        BY <2>2 DEF SelectSession
      <3>2. ~Streaming /\ stored' = stored
        BY <1>0, <3>1, AbortKeeps
      <3> QED
        BY <1>1, <3>1, <3>2
    <2> QED
      BY <2>1, <2>2
  <1>10. CASE ClearMessages \/ StopGeneration
    <2>1. Abort /\ AbortStores /\ UNCHANGED <<history, historySync>>
      BY <1>10 DEF ClearMessages, StopGeneration
    <2>2. ~Streaming /\ stored' = stored
      BY <1>0, <2>1, AbortKeeps
    <2> QED
      BY <1>1, <2>1, <2>2
  <1>11. CASE RunChatEffects \/ PaletteNewSession \/ (\E r \in ChatRepos : SwitchRepository(r))
              \/ UNCHANGED chatVars
    <2>1. UNCHANGED <<history, stored, historySync, stream>>
      BY <1>11 DEF RunChatEffects, PaletteNewSession, SwitchRepository, chatVars, hookVars, serverVars
    <2> QED
      BY <1>1, <2>1
  <1> QED
    BY <1>2, <1>3, <1>4, <1>5, <1>6, <1>7, <1>8, <1>9, <1>10, <1>11 DEF ChatNext

\* Every step that leaves the effects nothing to do leaves nothing hidden.
LEMMA NothingHiddenStep ==
  ASSUME ChatTypes, StreamInv, [ChatNext]_chatVars, Untroubled', NEW tx, Talk(tx), NothingHidden
  PROVE  NothingHidden'
  <1> SUFFICES ASSUME Idle', current' # NoChat, Items' # NoData, ~isSending'
               PROVE  Within(Items', messages')
    BY DEF NothingHidden
  <1>1. ASSUME Idle, UNCHANGED <<current, isSending, messages>>, Items' = Items
        PROVE  Within(Items', messages')
    BY <1>1 DEF NothingHidden
  <1>2. Streaming => isSending
    BY DEF StreamInv, SendingMatchesStream
  <1>3. ASSUME NEW s, Invalidate(s) PROVE Items' = Items \/ current' # current
    <2> SUFFICES ASSUME current' = current PROVE history'[current].data = history[current].data
      BY DEF Items
    <2>1. current \in ChatSessions /\ history[current] \in QueryOf(Seq(Messages))
      BY DEF ChatTypes, SessionIds
    <2>2. CASE s = current
      <3> DEFINE shown == s = current
      <3>1. history'[current] = Invalidated(history[current], shown) /\ shown \in BOOLEAN
        BY <1>3, <2>1, <2>2, InvalidateType
      <3> HIDE DEF shown
      <3>2. Invalidated(history[current], shown).data = history[current].data
        BY <2>1, <3>1, QueryTypes
      <3> QED
        BY <3>1, <3>2
    <2>3. CASE s # current
      BY <1>3, <2>1, <2>3, InvalidateType
    <2> QED
      BY <2>2, <2>3
  <1>4. CASE RunChatEffects
    <2>1. /\ UNCHANGED <<current, isSending, historySync, history>> /\ Items' = Items
          /\ skipped' = (skipped \/ NewsHidden)
      BY <1>4 DEF RunChatEffects, Items
    <2>2. ~NewsHidden
      BY <2>1, Zenon DEF Untroubled
    <2>3. /\ current \in ChatSessions /\ Turns(Items, tx, sends) /\ Turns(messages, tx, sends)
      BY <2>1 DEF ChatTypes, SessionIds, Talk, ServerInv, ShownInv, Known, Items
    <2>4. CASE HistoryReady
      <3>1. messages' = MergeServerMessages(messages, Items) /\ Within(messages, Items)
        BY <1>4, <2>1, <2>4 DEF RunChatEffects, Talk, ShownInv
      <3>2. messages' = Items
        BY <2>3, <2>4, <3>1, MergeIsHistory DEF ChatTypes, HistoryReady
      <3> QED
        BY <2>1, <3>2, WithinAll
    <2>5. CASE ~HistoryReady /\ historySync # NoChat
      <3>1. messages' = messages /\ Range(Shape(Items)) \subseteq Range(Shape(messages))
        BY <1>4, <2>1, <2>2, <2>5 DEF RunChatEffects, NewsHidden
      <3>2. ASSUME NEW i \in DOMAIN Items
            PROVE  \E j \in DOMAIN messages : SameTurn(Items[i], messages[j])
        <4>1. <<Items[i].role, Items[i].n>> \in Range(Shape(messages))
          BY <3>1 DEF Range, Shape
        <4> QED
          BY <4>1 DEF Range, Shape, SameTurn
      <3> QED
        BY <2>1, <3>1, <3>2 DEF Within
    <2>6. CASE Items = <<>>
      BY <2>1, <2>6 DEF Within
    <2> QED
      BY <2>1, <2>4, <2>5, <2>6 DEF HistoryReady
  <1>5. CASE \E t \in Texts : SendMessage(t)
    BY <1>5 DEF SendMessage
  <1>6. CASE (\E s \in ChatSessions : EventStart(s)) \/ (\E ok \in BOOLEAN : ServerStores(ok))
    BY <1>2, <1>6 DEF EventStart, ServerStores
  <1>7. CASE (\E ok \in BOOLEAN : StreamEnds(ok)) \/ StopGeneration
    BY <1>7 DEF StreamEnds, StopGeneration, Idle
  <1>8. CASE SyncTimer
    <2>1. Invalidate(historySync) /\ Idle /\ UNCHANGED <<current, isSending, messages>>
      BY <1>8 DEF SyncTimer
    <2> QED
      BY <1>1, <1>3, <2>1
  <1>9. CASE FetchHistory
    <2>1. /\ history' = [history EXCEPT ![current] = Fetched(@, OldestPage(stored[current]))]
          /\ UNCHANGED <<current, isSending, messages, chatDue>>
          /\ current \in ChatSessions /\ history[current] \in QueryOf(Seq(Messages))
      BY <1>9 DEF FetchHistory, hookVars, ChatTypes, SessionIds
    <2>2. history'[current] = Fetched(history[current], OldestPage(stored[current]))
      BY <2>1 DEF ChatTypes
    <2>3. Fetched(history[current], OldestPage(stored[current])).data = history[current].data
      BY <2>1 DEF Fetched, QueryOf
    <2>4. Items' = Items /\ Idle
      BY <2>1, <2>2, <2>3 DEF Items, Idle
    <2> QED
      BY <1>1, <2>1, <2>4
  <1>10. CASE \E s \in ChatSessions : HistoryArrives(s)
    <2> PICK s \in ChatSessions : HistoryArrives(s)
      BY <1>10
    <2>1. /\ history' = [history EXCEPT ![s] = Answered(@)] /\ Idle
          /\ s # current \/ Items = history[s].flight
          /\ UNCHANGED <<current, isSending, messages>>
      BY DEF HistoryArrives, hookVars, Idle
    <2>2. Items' = Items
      <3>1. s = current => history'[current] = Answered(history[current])
        BY <2>1 DEF ChatTypes
      <3>2. s # current => history'[current] = history[current]
        BY <2>1 DEF ChatTypes, SessionIds
      <3> QED
        BY <2>1, <3>1, <3>2 DEF Items, Answered
    <2> QED
      BY <1>1, <2>1, <2>2
  <1>11. CASE \E s \in ChatSessions : SelectSession(s)
    <2> PICK s \in ChatSessions : SelectSession(s)
      BY <1>11
    <2>1. s = current
      BY DEF SelectSession, Show, Idle
    <2>2. Invalidate(s) /\ Idle /\ UNCHANGED <<current, isSending, messages>>
      BY <2>1 DEF SelectSession, Move
    <2> QED
      BY <1>1, <1>3, <2>2
  <1>12. CASE ClearMessages \/ PaletteNewSession \/ \E r \in ChatRepos : SwitchRepository(r)
    BY <1>12 DEF ClearMessages, PaletteNewSession, SwitchRepository, Show
  <1>13. CASE UNCHANGED chatVars
    BY <1>1, <1>13 DEF chatVars, hookVars, Idle, Items
  <1> QED
    BY <1>4, <1>5, <1>6, <1>7, <1>8, <1>9, <1>10, <1>11, <1>12, <1>13 DEF ChatNext

\* Two lists of turns that have each other's turns show the same.
LEMMA SameShape ==
  ASSUME NEW a, NEW d, NEW tx, NEW b \in Nat, Turns(a, tx, b), Turns(d, tx, b),
         Within(a, d), Within(d, a)
  PROVE  Shape(a) = Shape(d)
  <1>1. /\ a \in Seq(Messages) /\ d \in Seq(Messages)
        /\ DOMAIN a = 1 .. Len(a) /\ DOMAIN d = 1 .. Len(d) /\ Len(a) \in Nat /\ Len(d) \in Nat
        /\ \A i \in DOMAIN a : a[i].n \in Nat /\ a[i].role \in {"user", "assistant"}
        /\ \A i \in DOMAIN d : d[i].n \in Nat /\ d[i].role \in {"user", "assistant"}
    <2>1. a \in Seq(Messages) /\ d \in Seq(Messages)
      BY DEF Turns
    <2>2. \A seq \in Seq(Messages) : \A i \in DOMAIN seq :
            seq[i].n \in Nat /\ seq[i].role \in {"user", "assistant"}
      <3>1. \A seq \in Seq(Messages) : \A i \in DOMAIN seq : seq[i] \in Messages
        OBVIOUS
      <3> QED
        BY <3>1 DEF Messages
    <2> QED
      BY <2>1, <2>2
  <1>2. Len(a) = Len(d)
    <2>1. Len(a) <= Len(d)
      BY <1>1, WithinIsShorter
    <2>2. Len(d) <= Len(a)
      BY <1>1, WithinIsShorter
    <2>3. Len(a) \in Nat /\ Len(d) \in Nat
      BY <1>1
    <2> QED
      BY <2>1, <2>2, <2>3
  <1> DEFINE Differ == {i \in DOMAIN a : ~SameTurn(a[i], d[i])}
  <1>3. ASSUME Differ # {} PROVE FALSE
    <2>1. PICK k \in Differ : \A i \in Differ : k <= i
      <3>1. Differ \in SUBSET Nat
        BY <1>1
      <3> HIDE DEF Differ
      <3> QED
        BY <1>3, <3>1, LeastNatural
    <2>2. k \in DOMAIN a /\ k \in DOMAIN d /\ ~SameTurn(a[k], d[k]) /\ k \in Nat
          /\ \A i \in DOMAIN a : i < k => SameTurn(a[i], d[i])
      BY <1>1, <1>2, <2>1
    <2> HIDE DEF Differ
    \* The turn at k of either list comes later in the other.
    <2>3. PICK j : j \in DOMAIN d /\ SameTurn(a[k], d[j])
      BY <2>2 DEF Within
    <2>4. PICK i : i \in DOMAIN a /\ SameTurn(d[k], a[i])
      BY <2>2 DEF Within
    <2>5. k < j
      <3>1. ASSUME j < k PROVE FALSE
        <4>1. j \in DOMAIN a /\ SameTurn(a[j], d[j])
          BY <1>1, <1>2, <2>2, <2>3, <3>1
        <4>2. SameTurn(a[k], a[j])
          BY <2>3, <4>1 DEF SameTurn
        <4>3. k = j
          BY <2>2, <4>1, <4>2, TurnsDiffer
        <4> QED
          BY <1>1, <2>2, <3>1, <4>3
      <3> QED
        BY <1>1, <2>2, <2>3, <3>1
    <2>6. k < i
      <3>1. ASSUME i < k PROVE FALSE
        <4>1. i \in DOMAIN d /\ SameTurn(a[i], d[i])
          BY <1>1, <1>2, <2>2, <2>4, <3>1
        <4>2. SameTurn(d[k], d[i])
          BY <2>4, <4>1 DEF SameTurn
        <4>3. k = i
          BY <2>2, <4>1, <4>2, TurnsDiffer
        <4> QED
          BY <1>1, <2>2, <3>1, <4>3
      <3>2. i \in Nat /\ k \in Nat /\ i # k
        BY <1>1, <2>2, <2>4 DEF SameTurn
      <3> QED
        BY <3>1, <3>2
    \* Of two with one role that is out of order; of two roles, the answer misses its question.
    <2>7. CASE a[k].role = d[k].role
      <3>1. d[k].n < a[k].n
        <4>1. d[k].role = d[j].role /\ d[j].n = a[k].n
          BY <2>3, <2>7 DEF SameTurn
        <4>2. d[k].n < d[j].n
          BY <2>2, <2>3, <2>5, <4>1 DEF Turns
        <4> QED
          BY <4>1, <4>2
      <3>2. a[k].n < d[k].n
        <4>1. a[k].role = a[i].role /\ a[i].n = d[k].n
          BY <2>4, <2>7 DEF SameTurn
        <4>2. a[k].n < a[i].n
          BY <2>2, <2>4, <2>6, <4>1 DEF Turns
        <4> QED
          BY <4>1, <4>2
      <3> QED
        BY <1>1, <2>2, <3>1, <3>2
    <2>8. CASE a[k].role = "assistant" /\ d[k].role = "user"
      <3>1. k > 1 /\ a[k - 1].role = "user" /\ a[k - 1].n = a[k].n
        BY <2>2, <2>8 DEF Turns
      <3>2. j > 1 /\ d[j - 1].role = "user" /\ d[j - 1].n = a[k].n
        BY <2>3, <2>8 DEF Turns, SameTurn
      <3>3. k - 1 \in DOMAIN a /\ k - 1 < k /\ j - 1 \in DOMAIN d /\ k - 1 \in DOMAIN d
        BY <1>1, <1>2, <2>2, <2>3, <3>1, <3>2
      <3>4. SameTurn(a[k - 1], d[k - 1])
        BY <2>2, <3>3
      <3>5. SameTurn(d[k - 1], d[j - 1])
        BY <3>1, <3>2, <3>4 DEF SameTurn
      <3>6. k - 1 = j - 1
        BY <3>3, <3>5, TurnsDiffer
      <3> QED
        BY <1>1, <2>2, <2>3, <2>5, <3>6
    <2>9. CASE a[k].role = "user" /\ d[k].role = "assistant"
      <3>1. k > 1 /\ d[k - 1].role = "user" /\ d[k - 1].n = d[k].n
        BY <2>2, <2>9 DEF Turns
      <3>2. i > 1 /\ a[i - 1].role = "user" /\ a[i - 1].n = d[k].n
        BY <2>4, <2>9 DEF Turns, SameTurn
      <3>3. k - 1 \in DOMAIN a /\ k - 1 < k /\ i - 1 \in DOMAIN a
        BY <1>1, <2>2, <2>4, <3>1, <3>2
      <3>4. SameTurn(a[k - 1], d[k - 1])
        BY <2>2, <3>3
      <3>5. SameTurn(a[k - 1], a[i - 1])
        BY <3>1, <3>2, <3>4 DEF SameTurn
      <3>6. k - 1 = i - 1
        BY <3>3, <3>5, TurnsDiffer
      <3> QED
        BY <1>1, <2>2, <2>4, <2>6, <3>6
    <2> QED
      BY <1>1, <2>2, <2>7, <2>8, <2>9
  <1>4. \A i \in DOMAIN a : a[i].role = d[i].role /\ a[i].n = d[i].n
    BY <1>3 DEF SameTurn
  <1> HIDE DEF Differ
  <1> QED
    BY <1>1, <1>2, <1>4 DEF Shape

\* The invariant of the chat with what keeps its page and its cache up to the store.
RestInv == ChatInv /\ (Untroubled => CopiesTrue /\ NothingHidden)

\* It holds of a page just loaded,
LEMMA RestInvInit == ChatInit => RestInv
  <1> SUFFICES ASSUME ChatInit PROVE RestInv
    OBVIOUS
  <1>1. ChatInv
    BY ChatInvInit
  <1>2. \A s \in ChatSessions : history[s] = EmptyQuery
    BY DEF ChatInit
  <1>3. CopiesTrue
    BY <1>2 DEF CopiesTrue, Owes, EmptyQuery
  <1>4. NothingHidden
    BY DEF ChatInit, NothingHidden
  <1> QED
    BY <1>1, <1>3, <1>4 DEF RestInv

\* and every step keeps it.
LEMMA RestInvStep == RestInv /\ [ChatNext]_chatVars => RestInv'
  <1> SUFFICES ASSUME RestInv, [ChatNext]_chatVars PROVE RestInv'
    OBVIOUS
  <1>1. ChatInv /\ ChatInv' /\ ChatTypes /\ ChatTypes' /\ StreamInv
    BY ChatInvStep DEF RestInv, ChatInv
  <1>2. ASSUME Untroubled' PROVE CopiesTrue' /\ NothingHidden'
    <2>1. Untroubled /\ CopiesTrue /\ NothingHidden
      BY <1>1, <1>2, TroubleStays DEF RestInv
    <2>2. PICK tx \in TextTables : Talk(tx)
      BY <1>1, <2>1 DEF ChatInv
    <2>3. CopiesTrue'
      BY <1>1, <1>2, <2>1, CopiesStep
    <2>4. NothingHidden'
      BY <1>1, <1>2, <2>1, <2>2, NothingHiddenStep
    <2> QED
      BY <2>3, <2>4
  <1> QED
    BY <1>1, <1>2 DEF RestInv

\* For every number of sends, sessions and moves: while every send ended as one stored pair,
\* no news was hidden and no session has more than HistoryLimit messages, a page with nothing
\* sent, timed, due or asked for shows the questions and answers the server has stored of
\* its session, in their order.  (A longer session is shown without its last turns.)
THEOREM ChatRestsOnStored == ChatSpec => []ChatAtRest
  <1>1. RestInv => ChatAtRest
    <2> SUFFICES ASSUME RestInv, Untroubled, current # NoChat, Idle, ~Streaming,
                        historySync = NoChat, CacheRests(history[current])
                 PROVE  Shape(messages) = Shape(stored[current])
      BY DEF ChatAtRest, PageRests, Untroubled
    <2>1. ChatTypes /\ StreamInv /\ CopiesTrue /\ NothingHidden /\ \E tx \in TextTables : Talk(tx)
      BY DEF RestInv, ChatInv
    <2> PICK tx \in TextTables : Talk(tx)
      BY <2>1
    <2>2. /\ current \in ChatSessions /\ history[current] \in QueryOf(Seq(Messages))
          /\ stored[current] \in Seq(Messages) /\ sends \in Nat
      BY <2>1 DEF ChatTypes, SessionIds
    <2>3. Items = stored[current]
      <3>1. Owes(history[current], stored[current])
        BY <2>1, <2>2 DEF CopiesTrue
      <3> QED
        BY <2>2, <3>1, QueryOwes DEF Items
    <2>4. Items # NoData
      BY DEF CacheRests, NeedsFetch, HasAnswer, Items
    <2>5. Within(Items, messages)
      BY <2>1, <2>4 DEF NothingHidden, StreamInv, SendingMatchesStream
    <2>6. /\ Turns(messages, tx, sends) /\ Turns(stored[current], tx, sends)
          /\ \A i \in DOMAIN messages : Belongs(messages[i], current, stored, stream)
      BY <2>2 DEF Talk, ShownInv, ServerInv, Leaving
    <2>7. Within(messages, stored[current])
      BY <2>6 DEF Belongs, Within, Streaming
    <2> QED
      BY <2>2, <2>3, <2>5, <2>6, <2>7, SameShape
  <1> QED
    BY <1>1, RestInvInit, RestInvStep, PTL DEF ChatSpec
-----------------------------------------------------------------------------
(* The types the run checks *)

\* What the server and the composer keep besides; sends and moves are counted.
OwnerTypes ==
  /\ owner \in [ChatSessions -> ChatRepos \cup {NoChat}]
  /\ sends \in 0 .. MaxSends /\ moves \in 0 .. MaxMoves /\ isSending \in BOOLEAN

LEMMA OwnerTypesStep ==
  ASSUME ChatTypes, OwnerTypes, [ChatNext]_chatVars
  PROVE  OwnerTypes'
  <1>a. Move => moves' \in 0 .. MaxMoves
    BY ChatBounds DEF Move, OwnerTypes
  <1>1. ASSUME NEW t \in Texts, SendMessage(t) PROVE OwnerTypes'
    <2>1. /\ sends < MaxSends /\ sends' = sends + 1 /\ UNCHANGED <<owner, moves>>
          /\ isSending' = TRUE
      BY <1>1 DEF SendMessage, serverVars
    <2>2. sends' \in 0 .. MaxSends
      BY <2>1, ChatBounds DEF OwnerTypes
    <2> QED
      BY <2>1, <2>2, Zenon DEF OwnerTypes
  <1>2. ASSUME NEW s \in ChatSessions, EventStart(s) PROVE OwnerTypes'
    <2>1. stream.repo \in ChatRepos
      BY <1>2 DEF EventStart, Streaming, ChatTypes, Sends
    <2>2. owner' = owner \/ owner' = [owner EXCEPT ![s] = stream.repo]
      BY <1>2 DEF EventStart
    <2>3. UNCHANGED <<sends, moves, isSending>>
      BY <1>2 DEF EventStart
    <2> QED
      BY <2>1, <2>2, <2>3 DEF OwnerTypes
  <1>3. ASSUME UNCHANGED <<owner, sends>>, UNCHANGED moves \/ Move,
               isSending' = isSending \/ isSending' = FALSE
        PROVE  OwnerTypes'
    BY <1>3, <1>a, Zenon DEF OwnerTypes
  <1>4. CASE RunChatEffects \/ SyncTimer \/ FetchHistory
             \/ \E ok \in BOOLEAN : ServerStores(ok) \/ StreamEnds(ok)
    BY <1>3, <1>4 DEF RunChatEffects, SyncTimer, FetchHistory, ServerStores, StreamEnds,
                            serverVars, hookVars
  <1>5. CASE \E s \in ChatSessions : HistoryArrives(s) \/ SelectSession(s)
    BY <1>3, <1>5 DEF HistoryArrives, SelectSession, Abort, serverVars, hookVars
  <1>6. CASE ClearMessages \/ StopGeneration \/ PaletteNewSession
             \/ \E r \in ChatRepos : SwitchRepository(r)
    BY <1>3, <1>6 DEF ClearMessages, StopGeneration, PaletteNewSession, SwitchRepository,
                            Abort, serverVars, hookVars
  <1>7. CASE UNCHANGED chatVars
    BY <1>3, <1>7 DEF chatVars, serverVars, hookVars
  <1> QED
    BY <1>1, <1>2, <1>4, <1>5, <1>6, <1>7 DEF ChatNext

LEMMA OwnerTypesInit == ChatInit => OwnerTypes
  <1>1. 0 \in 0 .. MaxSends /\ 0 \in 0 .. MaxMoves
    BY ChatBounds
  <1> QED
    BY <1>1 DEF ChatInit, OwnerTypes

LEMMA ChatTyped == ChatInv /\ OwnerTypes => ChatTypeOK
  BY DEF ChatInv, ChatTypes, SessionIds, OwnerTypes, ChatTypeOK

\* The chat keeps its types, for any number of sends, sessions and moves.
THEOREM ChatIsTyped == ChatSpec => []ChatTypeOK
  <1>1. ChatInv /\ OwnerTypes /\ [ChatNext]_chatVars => OwnerTypes'
    BY OwnerTypesStep DEF ChatInv
  <1> QED
    BY <1>1, ChatInvInit, OwnerTypesInit, ChatInvStep, ChatTyped, PTL DEF ChatSpec
=============================================================================
