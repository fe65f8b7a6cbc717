------------------------------ MODULE Channels ------------------------------
(***************************************************************************)
(* groups.ChannelService: broadcast channels with a linked list of posts.  *)
(* A post and the channel that points to it are written in two             *)
(* transactions, either of which may fail, and the process may die between *)
(* them.  Signatures are kept as what was signed.                          *)
(***************************************************************************)
EXTENDS Integers, Sequences, FiniteSets

CONSTANTS
  Channel,    \* channel identifiers, never drawn twice
  Subscriber, \* keys that subscribe
  MaxPosts,   \* bound: posts
  MaxClock,   \* bound: the clock
  MaxOps      \* bound: subscriptions and their ends

VARIABLES
  channels,    \* the cached channels
  posts,       \* the cached posts
  subscribers, \* the subscribers of a channel
  stored,      \* the stored channels
  storedPosts, \* the stored posts: <<post 1, post 2, ...>>
  posting,     \* CreatePost between its two transactions
  used,        \* identifiers drawn
  time, ops

vars == <<channels, posts, subscribers, stored, storedPosts, posting, used, time, ops>>

None == 0
NoState == [kind |-> "none", head |-> None, count |-> 0, updated |-> 0, sig |-> <<0, 0, 0>>]
NoPosting == [c |-> None, post |-> None, now |-> 0]

Serialize(s) == <<s.head, s.count, s.updated>>
Sign(s) == [s EXCEPT !.sig = Serialize(s)]
Verify(s) == s.sig = Serialize(s)

Known(c) == channels[c] # NoState
Unlocked == posting = NoPosting

Init ==
  /\ channels = [c \in Channel |-> NoState] /\ posts = [c \in Channel |-> {}]
  /\ subscribers = [c \in Channel |-> {}]
  /\ stored = [c \in Channel |-> NoState] /\ storedPosts = <<>>
  /\ posting = NoPosting /\ used = {} /\ time = 1 /\ ops = 0

\* storeChannel, which may fail.
storeChannel(c, s) == stored' = [stored EXCEPT ![c] = s] \/ UNCHANGED stored

CreateChannel(c, kind) ==
  LET state == Sign([NoState EXCEPT !.kind = kind, !.updated = time])
  IN  /\ Unlocked /\ c \notin used /\ used' = used \cup {c}
      /\ \/ stored' = [stored EXCEPT ![c] = state] /\ channels' = [channels EXCEPT ![c] = state]
         \/ UNCHANGED <<stored, channels>>
      /\ UNCHANGED <<posts, subscribers, storedPosts, posting, time, ops>>

\* Mutant: the head is cleared until the channel is stored.
MutantSaveChannelPost(c, post) ==
  /\ storedPosts' = Append(storedPosts, post)
  /\ stored' = IF stored[c] = NoState THEN stored
               ELSE [stored EXCEPT ![c].head = None, ![c].updated = post.time]

\* SaveChannelPost: the stored channel gets the post before the new one as its
\* head, in the transaction of the post.
SaveChannelPost(c, post) ==
  /\ storedPosts' = Append(storedPosts, post)
  /\ stored' = IF stored[c] = NoState THEN stored
               ELSE [stored EXCEPT ![c].head = post.prev, ![c].updated = post.time]

\* CreatePost up to storePost; if that fails the post is gone.
CreatePost(c) ==
  /\ Unlocked /\ Known(c) /\ Len(storedPosts) < MaxPosts
  /\ SaveChannelPost(c, [c |-> c, prev |-> channels[c].head, time |-> time])
  /\ posting' = [c |-> c, post |-> Len(storedPosts) + 1, now |-> time]
  /\ UNCHANGED <<channels, posts, subscribers, used, time, ops>>

\* Mutant: the channel is not signed again.
MutantPosted(s, post, now) == [s EXCEPT !.head = post, !.updated = now]

\* The head of the channel as CreatePost leaves it in memory.
Posted(s, post, now) == Sign([s EXCEPT !.head = post, !.updated = now])

\* Mutant: the head in memory stays when the channel cannot be stored.
MutantPostChannel ==
  LET c == posting.c
      state == Posted(channels[c], posting.post, posting.now)
  IN  /\ posting # NoPosting /\ posting' = NoPosting
      /\ \/ /\ stored' = [stored EXCEPT ![c] = state]
            /\ posts' = [posts EXCEPT ![c] = @ \cup {posting.post}]
            /\ channels' = [channels EXCEPT ![c] = state]
         \/ UNCHANGED <<channels, stored, posts>>
      /\ UNCHANGED <<subscribers, storedPosts, used, time, ops>>

\* The rest of CreatePost.  The channel in memory has the post even if it
\* cannot be stored; then the post is not cached and nobody is counted.
PostChannel ==
  LET c == posting.c
      state == Posted(channels[c], posting.post, posting.now)
  IN  /\ posting # NoPosting /\ posting' = NoPosting
      /\ \/ /\ stored' = [stored EXCEPT ![c] = state]
            /\ posts' = [posts EXCEPT ![c] = @ \cup {posting.post}]
            /\ channels' = [channels EXCEPT ![c] =
                 IF state.kind = "public" THEN [state EXCEPT !.count = @ + 1] ELSE state]
         \/ channels' = [channels EXCEPT ![c] = state] /\ UNCHANGED <<stored, posts>>
      /\ UNCHANGED <<subscribers, storedPosts, used, time, ops>>

\* Subscriptions are recounted and stored, and not signed again.
Recount(c, S) ==
  LET state == [channels[c] EXCEPT !.count = Cardinality(S)]
  IN  /\ Unlocked /\ Known(c) /\ ops < MaxOps /\ ops' = ops + 1
      /\ subscribers' = [subscribers EXCEPT ![c] = S]
      /\ channels' = [channels EXCEPT ![c] = state]
      /\ storeChannel(c, state)
      /\ UNCHANGED <<posts, storedPosts, posting, used, time>>

\* Mutant: the subscribers are not counted again.
MutantSubscribe(c, s) ==
  /\ Unlocked /\ Known(c) /\ channels[c].kind = "public" /\ ops < MaxOps /\ ops' = ops + 1
  /\ subscribers' = [subscribers EXCEPT ![c] = @ \cup {s}]
  /\ UNCHANGED <<channels, posts, stored, storedPosts, posting, used, time>>

Subscribe(c, s) == channels[c].kind = "public" /\ Recount(c, subscribers[c] \cup {s})
Unsubscribe(c, s) == Recount(c, subscribers[c] \ {s})

\* The posts of a deleted channel stay in the database.
DeleteChannel(c) ==
  /\ Unlocked /\ Known(c)
  /\ stored' = [stored EXCEPT ![c] = NoState]
  /\ channels' = [channels EXCEPT ![c] = NoState]
  /\ posts' = [posts EXCEPT ![c] = {}]
  /\ subscribers' = [subscribers EXCEPT ![c] = {}]
  /\ UNCHANGED <<storedPosts, posting, used, time, ops>>

\* The process ends; the next one loads no channels.
Restart ==
  /\ used # {}
  /\ channels' = [c \in Channel |-> NoState] /\ posts' = [c \in Channel |-> {}]
  /\ subscribers' = [c \in Channel |-> {}] /\ posting' = NoPosting
  /\ UNCHANGED <<stored, storedPosts, used, time, ops>>

Tick == time < MaxClock /\ time' = time + 1
        /\ UNCHANGED <<channels, posts, subscribers, stored, storedPosts, posting, used, ops>>

Next ==
  \/ PostChannel \/ Restart \/ Tick
  \/ \E c \in Channel :
       \/ \E kind \in {"private", "public"} : CreateChannel(c, kind)
       \/ CreatePost(c) \/ DeleteChannel(c)
       \/ \E s \in Subscriber : Subscribe(c, s) \/ Unsubscribe(c, s)

Spec == Init /\ [][Next]_vars

-----------------------------------------------------------------------------
PostsOf(c) == {p \in 1 .. Len(storedPosts) : storedPosts[p].c = c}
Latest(c) == IF PostsOf(c) = {} THEN None
             ELSE CHOOSE p \in PostsOf(c) : \A q \in PostsOf(c) : q <= p

\* The posts that are reached from one by its links to previous ones.
ChainFrom[p \in 0 .. Len(storedPosts)] ==
  IF p = None THEN {} ELSE {p} \cup ChainFrom[storedPosts[p].prev]

\* Whatever failed before, the head of a channel in use leads to all of its
\* posts (CreatePost moves the head although the channel cannot be stored).
PostChainWhole ==
  \A c \in Channel : Unlocked /\ Known(c) => ChainFrom[channels[c].head] = PostsOf(c)

\* What is stored of a channel leads to all of its posts but at most the last
\* one, after failures and crashes too (SaveChannelPost stores the previous
\* head, storeChannel the new one).
StoredChainLag ==
  \A c \in Channel : stored[c] # NoState =>
    PostsOf(c) \ ChainFrom[stored[c].head] \in {{}, {Latest(c)}}

\* A stored private channel that points to its latest post is one its owner
\* signed: what the transaction of a post writes without signing never lasts
\* with that head (SaveChannelPost, CreatePost).
StoredPrivateVerifies ==
  \A c \in Channel :
    stored[c].kind = "private" /\ stored[c].head = Latest(c) => Verify(stored[c])

\* The subscriber count never falls below the number of subscribers, although
\* posts of a public channel are counted as subscribers (CreatePost,
\* Subscribe, Unsubscribe).
CountCoversSubscribers ==
  \A c \in Channel : Known(c) => channels[c].count >= Cardinality(subscribers[c])

\* A channel, in the cache and in storage, leads to its posts and is what its
\* owner signed, whatever failed before (CreatePost, SaveChannelPost, Subscribe).
ChannelsSound ==
  PostChainWhole /\ StoredChainLag /\ StoredPrivateVerifies /\ CountCoversSubscribers
=============================================================================
