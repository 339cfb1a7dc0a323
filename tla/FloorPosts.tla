------------------------------ MODULE FloorPosts -----------------------------
(***************************************************************************)
(* The posts of the social floor, their replies and likes, and the counts  *)
(* that are stored with them: FloorRepository of src/src/social.           *)
(*                                                                         *)
(* Every operation is a database transaction that locks a post, and a      *)
(* removal then locks others: the parent of a reply, or the replies of a   *)
(* post.  So a transaction is two actions, one that locks and reads, one   *)
(* that comes by the other locks, writes and commits; between the two      *)
(* others run, wait, or wait in a circle, of which the database rolls one  *)
(* back.  Who may remove a post is left out: any post may be one's own.    *)
(***************************************************************************)
EXTENDS Naturals, FiniteSets

CONSTANTS Posts, Members,
          Clients,      \* requests under way at once
          NoPost, NoChange

PostRows == [parent : Posts \cup {NoPost}, visible : BOOLEAN, likes : Nat, replies : Nat]

ASSUME FloorAssumption ==
    /\ IsFiniteSet(Posts) /\ IsFiniteSet(Members)
    /\ NoPost \notin Posts /\ NoPost \notin PostRows

VARIABLES
    post,     \* [Posts -> row of floor_posts or NoPost]
    likes,    \* SUBSET (Posts \X Members), floor_post_likes
    change    \* [Clients -> [op, post, user] or NoChange]: transactions that hold a post

floorVars == <<post, likes, change>>

FloorInit ==
    /\ post = [p \in Posts |-> NoPost]
    /\ likes = {}
    /\ change = [c \in Clients |-> NoChange]

Visible(p) == post[p] # NoPost /\ post[p].visible
RepliesTo(p) == {q \in Posts : Visible(q) /\ post[q].parent = p}

Locked == {change[c].post : c \in {d \in Clients : change[d] # NoChange}}
EndsChange(c) == change' = [change EXCEPT ![c] = NoChange]

\* create, of a post that is no reply
Publish(p) ==
    /\ post[p] = NoPost
    /\ post' = [post EXCEPT ![p] =
           [parent |-> NoPost, visible |-> TRUE, likes |-> 0, replies |-> 0]]
    /\ UNCHANGED <<likes, change>>

\* SELECT ... WHERE status = 'visible' FOR UPDATE; a reply has no replies.
Begin(c, op, p, u) ==
    /\ change[c] = NoChange /\ Visible(p) /\ p \notin Locked
    /\ op = "reply" => post[p].parent = NoPost
    /\ change' = [change EXCEPT ![c] = [op |-> op, post |-> p, user |-> u]]
    /\ UNCHANGED <<post, likes>>

ChangeIs(c, ops) == change[c] # NoChange /\ change[c].op \in ops

\* Mutant: a repeated like or unlike counts again.
Always(p, u, liked) == TRUE

\* affectedRows of the INSERT IGNORE or DELETE
Changes(p, u, liked) == liked # (<<p, u>> \in likes)

AtLeastOne(n) == IF n = 0 THEN 1 ELSE n

\* setLiked
SetLiked(c) ==
    /\ ChangeIs(c, {"like", "unlike"})
    /\ LET p == change[c].post
           u == change[c].user
           liked == change[c].op = "like"
       IN  IF Changes(p, u, liked)
           THEN /\ likes' = IF liked THEN likes \cup {<<p, u>>} ELSE likes \ {<<p, u>>}
                /\ post' = [post EXCEPT ![p].likes = IF liked THEN @ + 1 ELSE AtLeastOne(@) - 1]
           ELSE UNCHANGED <<post, likes>>
    /\ EndsChange(c)

\* create, of a reply
Reply(c, q) ==
    /\ ChangeIs(c, {"reply"}) /\ post[q] = NoPost
    /\ post' = [post EXCEPT ![change[c].post].replies = @ + 1,
                            ![q] = [parent |-> change[c].post, visible |-> TRUE,
                                    likes |-> 0, replies |-> 0]]
    /\ EndsChange(c)
    /\ UNCHANGED likes

TheThread(p) == {p} \cup RepliesTo(p)

\* remove, of a post with its replies, or of a reply
Remove(c) ==
    /\ ChangeIs(c, {"remove"})
    /\ LET p == change[c].post
           parent == post[p].parent
           gone == TheThread(p)
       IN  /\ (gone \cup {parent}) \cap Locked = {p}
           /\ post' = [q \in Posts |->
                 IF q \in gone THEN [post[q] EXCEPT !.visible = FALSE]
                 ELSE IF q = parent THEN [post[q] EXCEPT !.replies = AtLeastOne(@) - 1]
                 ELSE post[q]]
    /\ EndsChange(c)
    /\ UNCHANGED likes

\* Refused, failed, lost, or picked to break a deadlock: the transaction is undone.
RolledBack(c) ==
    /\ change[c] # NoChange
    /\ EndsChange(c)
    /\ UNCHANGED <<post, likes>>

FloorNext ==
    \/ \E p \in Posts : Publish(p)
    \/ \E c \in Clients :
          \/ \E p \in Posts, u \in Members, op \in {"like", "unlike"} : Begin(c, op, p, u)
          \/ \E p \in Posts, op \in {"reply", "remove"} : Begin(c, op, p, NoPost)
          \/ SetLiked(c) \/ Remove(c) \/ RolledBack(c)
          \/ \E q \in Posts : Reply(c, q)

FloorSpec == FloorInit /\ [][FloorNext]_floorVars

-----------------------------------------------------------------------------
(* Properties. *)

\* Rows and transactions are well formed, and two transactions hold two posts.
FloorTypeOK ==
    /\ likes \subseteq Posts \X Members
    /\ \A p \in Posts : post[p] # NoPost =>
          /\ post[p].parent \in Posts \cup {NoPost}
          /\ post[p].likes \in Nat /\ post[p].replies \in Nat
    /\ \A c, d \in Clients : c # d /\ change[c] # NoChange /\ change[d] # NoChange =>
          change[c].post # change[d].post

\* The counts that the feed shows and sorts by are those of the rows behind them,
\* though likes are repeated and raced, and a post and its reply removed at once;
\* and no reply outlives the post it answers (setLiked, create, remove).
CountsFollowTheRows ==
    \A p \in Posts : Visible(p) =>
        /\ post[p].likes = Cardinality({u \in Members : <<p, u>> \in likes})
        /\ post[p].replies = Cardinality(RepliesTo(p))
        /\ post[p].parent # NoPost => Visible(post[p].parent)
=============================================================================
