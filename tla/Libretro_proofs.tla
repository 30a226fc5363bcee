--------------------------- MODULE Libretro_proofs ---------------------------
(***************************************************************************)
(* Proofs about what libretro.cpp drives the console with: EventLoop, for  *)
(* any delays, frame length and costs of the instructions, and below it    *)
(* DiscControl, for any list of discs and any sequence of calls.           *)
(***************************************************************************)
EXTENDS EventLoop, DiscControl, SequenceTheorems, WellFoundedInduction, TLAPS

------------------------------------------------------------------------------
(* The list.  p is the place of each event in it.                           *)

Places == 1 .. 7
Links == Events \cup {"none"}
EventLists == [Events -> [event_time : Int, prev : Links, next : Links]]

Placed(p) ==
  /\ p \in [Events -> Places]
  /\ \A a, b \in Events : p[a] = p[b] => a = b
  /\ \A i \in Places : \E e \in Events : p[e] = i
  /\ p[SYNFIRST] = 1 /\ p[SYNLAST] = 7

\* The links of both directions follow the places ...
Linked(events, p) ==
  /\ Placed(p)
  /\ \A e \in Events \ {SYNLAST} : events[e].next \in Events /\ p[events[e].next] = p[e] + 1
  /\ \A e \in Events \ {SYNFIRST} : events[e].prev \in Events /\ p[events[e].prev] = p[e] - 1

\* ... and so do the times, between those of the two ends.
Ascending(events, p) == \A a, b \in Events : p[a] <= p[b] => events[a].event_time <= events[b].event_time
Ends(events) == events[SYNFIRST].event_time = 0 /\ events[SYNLAST].event_time = Never

Listed(events, p) == events \in EventLists /\ Linked(events, p) /\ Ascending(events, p) /\ Ends(events)
IsList(events) == \E p : Listed(events, p)

\* A walk goes from f to step[f] while go[f].  If every step goes down in q, and those that
\* end it go to one place, that is where it ends.
Leads(go, step, q, last) ==
  /\ q \in [Events -> Nat] /\ last \in Events /\ ~go[last]
  /\ \A f \in Events : go[f] => step[f] \in Events /\ q[step[f]] < q[f] /\ (~go[step[f]] => step[f] = last)
Walks(go, step, walk) == \A f \in Events : walk[f] = IF go[f] THEN walk[step[f]] ELSE f
Arrives(go, last, walk) == \A f \in Events : walk[f] = IF go[f] THEN last ELSE f

LEMMA WalkEnds ==
  ASSUME NEW go, NEW step, NEW q, NEW last, NEW walk, Leads(go, step, q, last), Walks(go, step, walk)
  PROVE  Arrives(go, last, walk)
<1> USE DEF Leads, Walks, Arrives
<1> DEFINE bad == {f \in Events : walk[f] # IF go[f] THEN last ELSE f}
           low == {q[f] : f \in bad}
<1> SUFFICES ASSUME bad # {} PROVE FALSE
  OBVIOUS
<1>1. low \subseteq Nat /\ low # {}
  OBVIOUS
<1> DEFINE R == OpToRel(<, Nat)
<1>2. PICK n \in low : \A k \in low : ~ (<<k, n>> \in R)
  BY <1>1, NatLessThanWellFounded, WFMin
<1>3. \A k \in low : n <= k
  <2> SUFFICES ASSUME NEW k \in low PROVE n <= k
    OBVIOUS
  <2>1. n \in Nat /\ k \in Nat
    BY <1>1
  <2>2. k < n => <<k, n>> \in R
    BY <2>1 DEF OpToRel
  <2> HIDE DEF R, low
  <2>3. ~(k < n)
    BY <1>2, <2>2, Zenon
  <2> QED BY <2>1, <2>3
<1>4. PICK f \in bad : q[f] = n
  BY <1>2
<1> HIDE DEF low, R
<1>5. \A e \in bad : q[f] <= q[e]
  BY <1>3, <1>4 DEF low
<1>6. go[f]
  BY <1>4
<1>7. step[f] \notin bad
  BY <1>5, <1>6
<1> QED BY <1>4, <1>6, <1>7

\* A walk back: every event it passes is later, and it ends at "last".
PassesBack(events, time, q, last) ==
  /\ \A f \in Events : events[f].event_time \in Int
  /\ ~(time < events[last].event_time)
  /\ \A f \in Events : time < events[f].event_time =>
       /\ events[f].prev \in Events /\ q[events[f].prev] < q[f]
       /\ ~(time < events[events[f].prev].event_time) => events[f].prev = last

\* PSX_SetEventNT's walk back, from where every event it passes is later.
LEMMA WalksBack ==
  ASSUME NEW events, NEW time \in Int, NEW q \in [Events -> Nat], NEW last \in Events,
         PassesBack(events, time, q, last), NEW from \in Events
  PROVE  WalkBack(events, from, time) = IF time < events[from].event_time THEN last ELSE from
<1> DEFINE go == [f \in Events |-> time < events[f].event_time]
           step == [f \in Events |-> events[f].prev]
           Is(w) == w = [f \in Events |-> IF time < events[f].event_time THEN w[events[f].prev] ELSE f]
           found == [f \in Events |-> IF time < events[f].event_time THEN last ELSE f]
           walk == CHOOSE w : Is(w)
<1>1. Is(found)
  BY DEF PassesBack
<1>2. Is(walk)
  BY <1>1
<1>3. WalkBack(events, from, time) = walk[from]
  BY DEF WalkBack
<1>4. Walks(go, step, walk)
  <2> SUFFICES ASSUME NEW w, Is(w), NEW f \in Events PROVE w[f] = IF go[f] THEN w[step[f]] ELSE f
    BY <1>2 DEF Walks
  <2> DEFINE g == [x \in Events |-> IF time < events[x].event_time THEN w[events[x].prev] ELSE x]
  <2>1. w = g
    BY Zenon
  <2>2. g[f] = IF go[f] THEN w[step[f]] ELSE f
    <3>1. g[f] = IF time < events[f].event_time THEN w[events[f].prev] ELSE f
      BY Zenon
    <3>2. go[f] = (time < events[f].event_time) /\ step[f] = events[f].prev
      BY Zenon
    <3> HIDE DEF g, go, step
    <3> QED BY <3>1, <3>2, Zenon
  <2> HIDE DEF g, go, step, Is
  <2> QED BY <2>1, <2>2, Zenon
<1>5. Leads(go, step, q, last)
  BY DEF Leads, PassesBack
<1> HIDE DEF walk, go, step
<1>6. Arrives(go, last, walk)
  BY <1>4, <1>5, WalkEnds
<1>7. walk[from] = IF go[from] THEN last ELSE from
  BY <1>6 DEF Arrives
<1> QED BY <1>3, <1>7 DEF go

\* A walk on: every event it passes is earlier.
PassesOn(events, time, q, last) ==
  /\ \A f \in Events : events[f].event_time \in Int
  /\ ~(time > events[last].event_time)
  /\ \A f \in Events : time > events[f].event_time =>
       /\ events[f].next \in Events /\ q[events[f].next] < q[f]
       /\ ~(time > events[events[f].next].event_time) => events[f].next = last

\* And its walk on, past events that are earlier.
LEMMA WalksOn ==
  ASSUME NEW events, NEW time \in Int, NEW q \in [Events -> Nat], NEW last \in Events,
         PassesOn(events, time, q, last), NEW from \in Events
  PROVE  WalkOn(events, from, time) = IF time > events[from].event_time THEN last ELSE from
<1> DEFINE go == [f \in Events |-> time > events[f].event_time]
           step == [f \in Events |-> events[f].next]
           Is(w) == w = [f \in Events |-> IF time > events[f].event_time THEN w[events[f].next] ELSE f]
           found == [f \in Events |-> IF time > events[f].event_time THEN last ELSE f]
           walk == CHOOSE w : Is(w)
<1>1. Is(found)
  BY DEF PassesOn
<1>2. Is(walk)
  BY <1>1
<1>3. WalkOn(events, from, time) = walk[from]
  BY DEF WalkOn
<1>4. Walks(go, step, walk)
  <2> SUFFICES ASSUME NEW w, Is(w), NEW f \in Events PROVE w[f] = IF go[f] THEN w[step[f]] ELSE f
    BY <1>2 DEF Walks
  <2> DEFINE g == [x \in Events |-> IF time > events[x].event_time THEN w[events[x].next] ELSE x]
  <2>1. w = g
    BY Zenon
  <2>2. g[f] = IF go[f] THEN w[step[f]] ELSE f
    <3>1. g[f] = IF time > events[f].event_time THEN w[events[f].next] ELSE f
      BY Zenon
    <3>2. go[f] = (time > events[f].event_time) /\ step[f] = events[f].next
      BY Zenon
    <3> HIDE DEF g, go, step
    <3> QED BY <3>1, <3>2, Zenon
  <2> HIDE DEF g, go, step, Is
  <2> QED BY <2>1, <2>2, Zenon
<1>5. Leads(go, step, q, last)
  BY DEF Leads, PassesOn
<1> HIDE DEF walk, go, step
<1>6. Arrives(go, last, walk)
  BY <1>4, <1>5, WalkEnds
<1>7. walk[from] = IF go[from] THEN last ELSE from
  BY <1>6 DEF Arrives
<1> QED BY <1>3, <1>7 DEF go

------------------------------------------------------------------------------
(* PSX_SetEventNT moves an event in the list: q are the new places.         *)

LEMMA ListLinks ==
  ASSUME NEW events, NEW p, Listed(events, p), NEW e \in Components
  PROVE  /\ e \in Events /\ e # SYNFIRST /\ e # SYNLAST /\ p[e] \in 2 .. 6
         /\ events[e].next \in Events /\ events[e].prev \in Events
         /\ p[events[e].next] = p[e] + 1 /\ p[events[e].prev] = p[e] - 1
<1>1. e \in Events /\ e # SYNFIRST /\ e # SYNLAST
  BY DEF Components, Events, SYNFIRST, SYNLAST
<1>2. SYNFIRST \in Events /\ SYNLAST \in Events
  BY DEF Events
<1> QED BY <1>1, <1>2 DEF Listed, Linked, Placed, Places

\* Back to just after "last".
LEMMA MovesBack ==
  ASSUME NEW events, NEW p, Listed(events, p), NEW e \in Components, NEW time \in Nat,
         time < events[e].event_time, NEW last \in Events, p[last] < p[e],
         ~(time < events[last].event_time),
         \A f \in Events : p[last] < p[f] => time < events[f].event_time
  PROVE  LET moved == LinkAfter(Unlink(events, e), last, e, time)
         IN IsList(moved) /\ moved[e].event_time = time
            /\ \A f \in Events \ {e} : moved[f].event_time = events[f].event_time
<1> DEFINE prv == events[e].prev
           nxt == events[e].next
           rest == Unlink(events, e)
           m == rest[last].next
           moved == LinkAfter(rest, last, e, time)
           q == [f \in Events |-> IF f = e THEN p[last] + 1
                                  ELSE IF p[last] < p[f] /\ p[f] < p[e] THEN p[f] + 1 ELSE p[f]]
<1>1. /\ e \in Events /\ e # SYNFIRST /\ e # SYNLAST /\ p[e] \in 2 .. 6
      /\ nxt \in Events /\ prv \in Events /\ p[nxt] = p[e] + 1 /\ p[prv] = p[e] - 1
  BY ListLinks
<1>2. p \in [Events -> Places] /\ SYNFIRST \in Events /\ SYNLAST \in Events /\ SYNFIRST # SYNLAST
  BY DEF Listed, Linked, Placed, Events, SYNFIRST, SYNLAST
<1>3. rest \in EventLists /\ m \in Events
      /\ m = (IF last = prv THEN nxt ELSE events[last].next)
  BY <1>1, <1>2 DEF Listed, Linked, Placed, Places, EventLists, Unlink, Links
<1>4. moved \in EventLists
  BY <1>1, <1>3, SMTT(40) DEF LinkAfter, EventLists, Links
<1>5. \A f \in Events : moved[f].event_time = IF f = e THEN time ELSE events[f].event_time
  BY <1>1, <1>2, <1>3 DEF LinkAfter, Unlink, EventLists, Listed
<1>6. \A f \in Events : moved[f].next = IF f = e THEN m ELSE IF f = last THEN e
                                        ELSE IF f = prv THEN nxt ELSE events[f].next
  BY <1>1, <1>2, <1>3 DEF LinkAfter, Unlink, EventLists, Listed
<1>7. \A f \in Events : moved[f].prev = IF f = e THEN last ELSE IF f = m THEN e
                                        ELSE IF f = nxt THEN prv ELSE events[f].prev
  <2>1. \A f \in Events : rest[f].prev = IF f = nxt THEN prv ELSE events[f].prev
    BY <1>1 DEF Unlink, EventLists, Listed
  <2> HIDE DEF rest
  <2>2. \A f \in Events : moved[f].prev = IF f = e THEN last ELSE IF f = m THEN e ELSE rest[f].prev
    <3> HIDE DEF m, prv, nxt
    <3>1. moved = [rest EXCEPT ![e] = [event_time |-> time, prev |-> last, next |-> m],
                               ![m].prev = e, ![last].next = e]
      BY DEF LinkAfter, m
    <3>2. m # e
      BY <1>1, <1>3, <1>2 DEF Listed, Linked, Placed, Places, prv, nxt
    <3> HIDE DEF moved
    <3> QED BY <1>1, <1>3, <3>1, <3>2 DEF EventLists
  <2> QED BY <2>1, <2>2
<1> HIDE DEF moved, rest, m
<1>8. /\ q \in [Events -> Places] /\ q[SYNFIRST] = 1 /\ q[SYNLAST] = 7
  BY <1>1, <1>2 DEF Listed, Linked, Placed, Places
<1>9. /\ \A f, g \in Events : q[f] = q[g] => f = g
      /\ q[e] = p[last] + 1 /\ q[m] = p[last] + 2 /\ q[prv] = (IF last = prv THEN p[prv] ELSE p[e]) /\ q[nxt] = p[nxt]
      /\ q[last] = p[last]
  BY <1>1, <1>2, <1>3 DEF Listed, Linked, Placed, Places
<1>10. \A i \in Places : \E f \in Events : q[f] = i
  <2> SUFFICES ASSUME NEW i \in Places PROVE \E f \in Events : q[f] = i
    OBVIOUS
  <2>1. PICK g \in Events : p[g] = IF p[last] + 1 < i /\ i <= p[e] THEN i - 1 ELSE i
    BY <1>1, <1>2 DEF Listed, Linked, Placed, Places
  <2>2. CASE i = p[last] + 1
    <3> HIDE DEF q
    <3> QED BY <1>1, <1>9, <2>2
  <2>3. CASE i # p[last] + 1
    BY <1>1, <1>2, <2>1, <2>3 DEF Listed, Linked, Placed, Places
  <2> QED BY <2>2, <2>3
<1>11. \A f \in Events \ {SYNLAST} : moved[f].next \in Events /\ q[moved[f].next] = q[f] + 1
  BY <1>1, <1>2, <1>3, <1>6, <1>9 DEF Listed, Linked, Placed, Places
<1>12. \A f \in Events \ {SYNFIRST} : moved[f].prev \in Events /\ q[moved[f].prev] = q[f] - 1
  BY <1>1, <1>2, <1>3, <1>7, <1>9 DEF Listed, Linked, Placed, Places
<1>13. Ascending(moved, q)
  BY <1>1, <1>2, <1>5, SMTT(40) DEF Ascending, Listed, Linked, Placed, Places, EventLists
<1>14. Ends(moved)
  BY <1>1, <1>2, <1>5 DEF Ends, Listed
<1> HIDE DEF q
<1>15. Listed(moved, q)
  BY <1>4, <1>8, <1>9, <1>10, <1>11, <1>12, <1>13, <1>14 DEF Listed, Linked, Placed
<1> QED BY <1>1, <1>5, <1>15 DEF IsList, moved, rest

\* On to just before "last".
LEMMA MovesOn ==
  ASSUME NEW events, NEW p, Listed(events, p), NEW e \in Components, NEW time \in Nat,
         time > events[e].event_time, NEW last \in Events, p[last] > p[e],
         ~(time > events[last].event_time),
         \A f \in Events : p[f] < p[last] => time > events[f].event_time
  PROVE  LET rest  == Unlink(events, e)
             moved == LinkAfter(rest, rest[last].prev, e, time)
         IN IsList(moved) /\ moved[e].event_time = time
            /\ \A f \in Events \ {e} : moved[f].event_time = events[f].event_time
<1> DEFINE prv == events[e].prev
           nxt == events[e].next
           rest == Unlink(events, e)
           m == rest[last].prev
           moved == LinkAfter(rest, m, e, time)
           q == [f \in Events |-> IF f = e THEN p[last] - 1
                                  ELSE IF p[e] < p[f] /\ p[f] < p[last] THEN p[f] - 1 ELSE p[f]]
<1>1. /\ e \in Events /\ e # SYNFIRST /\ e # SYNLAST /\ p[e] \in 2 .. 6
      /\ nxt \in Events /\ prv \in Events /\ p[nxt] = p[e] + 1 /\ p[prv] = p[e] - 1
  BY ListLinks
<1>2. p \in [Events -> Places] /\ SYNFIRST \in Events /\ SYNLAST \in Events /\ SYNFIRST # SYNLAST
  BY DEF Listed, Linked, Placed, Events, SYNFIRST, SYNLAST
<1>3. rest \in EventLists /\ m \in Events
      /\ m = (IF last = nxt THEN prv ELSE events[last].prev)
  BY <1>1, <1>2 DEF Listed, Linked, Placed, Places, EventLists, Unlink, Links
<1>a. m # e /\ m # SYNLAST /\ (last # nxt => p[m] = p[last] - 1)
  BY <1>1, <1>2, <1>3 DEF Listed, Linked, Placed, Places
<1>b. \A f \in Events : rest[f].next = IF f = prv THEN nxt ELSE events[f].next
  BY <1>1 DEF Unlink, EventLists, Listed
<1>c. \A f \in Events : rest[f].prev = IF f = nxt THEN prv ELSE events[f].prev
  BY <1>1 DEF Unlink, EventLists, Listed
<1>d. \A f \in Events : rest[f].event_time = events[f].event_time
  BY <1>1 DEF Unlink, EventLists, Listed
<1>e. rest[m].next = last
  BY <1>1, <1>2, <1>3, <1>a, <1>b DEF Listed, Linked, Placed, Places
<1>f. moved = [rest EXCEPT ![e] = [event_time |-> time, prev |-> m, next |-> last],
                           ![last].prev = e, ![m].next = e]
  BY <1>e DEF LinkAfter
<1> HIDE DEF moved, rest, m
<1>4. moved \in EventLists
  BY <1>1, <1>3, <1>f, SMTT(40) DEF EventLists, Links
<1>5. \A f \in Events : moved[f].event_time = IF f = e THEN time ELSE events[f].event_time
  BY <1>1, <1>3, <1>a, <1>d, <1>f, SMTT(40) DEF EventLists
<1>6. \A f \in Events : moved[f].prev = IF f = e THEN m ELSE IF f = last THEN e
                                        ELSE IF f = nxt THEN prv ELSE events[f].prev
  BY <1>1, <1>3, <1>a, <1>c, <1>f, SMTT(40) DEF EventLists
<1>7. \A f \in Events : moved[f].next = IF f = e THEN last ELSE IF f = m THEN e
                                        ELSE IF f = prv THEN nxt ELSE events[f].next
  <2>1. \A f \in Events : moved[f].next = IF f = e THEN last ELSE IF f = m THEN e ELSE rest[f].next
    BY <1>1, <1>3, <1>a, <1>f DEF EventLists
  <2> QED BY <1>b, <2>1
<1>8. /\ q \in [Events -> Places] /\ q[SYNFIRST] = 1 /\ q[SYNLAST] = 7
  <2>1. \A f \in Events : p[f] \in Places
    BY <1>2
  <2>2. \A f \in Events : q[f] \in Places
    BY <1>1, <2>1 DEF Places
  <2>3. p[SYNFIRST] = 1 /\ p[SYNLAST] = 7
    BY DEF Listed, Linked, Placed
  <2> QED BY <1>1, <1>2, <2>1, <2>2, <2>3 DEF Places
<1>9. /\ \A f, g \in Events : q[f] = q[g] => f = g
      /\ q[e] = p[last] - 1 /\ q[m] = p[last] - 2 /\ q[nxt] = (IF last = nxt THEN p[nxt] ELSE p[e]) /\ q[prv] = p[prv]
      /\ q[last] = p[last]
  BY <1>1, <1>2, <1>3, <1>a DEF Listed, Linked, Placed, Places
<1>10. \A i \in Places : \E f \in Events : q[f] = i
  <2> SUFFICES ASSUME NEW i \in Places PROVE \E f \in Events : q[f] = i
    OBVIOUS
  <2>1. PICK g \in Events : p[g] = IF p[e] <= i /\ i < p[last] - 1 THEN i + 1 ELSE i
    BY <1>1, <1>2 DEF Listed, Linked, Placed, Places
  <2>2. CASE i = p[last] - 1
    <3> HIDE DEF q
    <3> QED BY <1>1, <1>9, <2>2
  <2>3. CASE i # p[last] - 1
    BY <1>1, <1>2, <2>1, <2>3 DEF Listed, Linked, Placed, Places
  <2> QED BY <2>2, <2>3
<1>11. \A f \in Events \ {SYNLAST} : moved[f].next \in Events /\ q[moved[f].next] = q[f] + 1
  BY <1>1, <1>2, <1>3, <1>7, <1>9, <1>a DEF Listed, Linked, Placed, Places
<1>12. \A f \in Events \ {SYNFIRST} : moved[f].prev \in Events /\ q[moved[f].prev] = q[f] - 1
  BY <1>1, <1>2, <1>3, <1>6, <1>9, <1>a DEF Listed, Linked, Placed, Places
<1>13. Ascending(moved, q)
  BY <1>1, <1>2, <1>5 DEF Ascending, Listed, Linked, Placed, Places, EventLists
<1>14. Ends(moved)
  BY <1>1, <1>2, <1>5 DEF Ends, Listed
<1> HIDE DEF q
<1>15. Listed(moved, q)
  BY <1>4, <1>8, <1>9, <1>10, <1>11, <1>12, <1>13, <1>14 DEF Listed, Linked, Placed
<1> QED BY <1>1, <1>5, <1>15 DEF IsList, moved, rest, m

LEMMA FirstAndLastPlace ==
  ASSUME NEW S, S \subseteq Places, S # {}
  PROVE  (\E i \in S : \A j \in S : j <= i) /\ (\E i \in S : \A j \in S : i <= j)
<1> DEFINE top == IF 7 \in S THEN 7 ELSE IF 6 \in S THEN 6 ELSE IF 5 \in S THEN 5 ELSE IF 4 \in S THEN 4
                  ELSE IF 3 \in S THEN 3 ELSE IF 2 \in S THEN 2 ELSE 1
           low == IF 1 \in S THEN 1 ELSE IF 2 \in S THEN 2 ELSE IF 3 \in S THEN 3 ELSE IF 4 \in S THEN 4
                  ELSE IF 5 \in S THEN 5 ELSE IF 6 \in S THEN 6 ELSE 7
<1>1. \A j \in S : j = 1 \/ j = 2 \/ j = 3 \/ j = 4 \/ j = 5 \/ j = 6 \/ j = 7
  BY DEF Places
<1>2. top \in S /\ \A j \in S : j <= top
  BY <1>1
<1>3. low \in S /\ \A j \in S : low <= j
  BY <1>1
<1> QED BY <1>2, <1>3

LEMMA RelinkMoves ==
  ASSUME NEW events, NEW p, Listed(events, p), NEW e \in Components, NEW time \in Nat, time <= Never
  PROVE  LET moved == Relink(events, e, time)
         IN IsList(moved) /\ moved[e].event_time = time
            /\ \A f \in Events \ {e} : moved[f].event_time = events[f].event_time
<1> DEFINE prv == events[e].prev
           nxt == events[e].next
           rest == Unlink(events, e)
<1>1. /\ e \in Events /\ e # SYNFIRST /\ e # SYNLAST /\ p[e] \in 2 .. 6
      /\ nxt \in Events /\ prv \in Events /\ p[nxt] = p[e] + 1 /\ p[prv] = p[e] - 1
  BY ListLinks
<1>2. /\ p \in [Events -> Places] /\ SYNFIRST \in Events /\ SYNLAST \in Events
      /\ \A f \in Events : events[f].event_time \in Int
      /\ \A f, g \in Events : p[f] = p[g] => f = g
      /\ \A f, g \in Events : p[f] <= p[g] => events[f].event_time <= events[g].event_time
      /\ p[SYNFIRST] = 1 /\ p[SYNLAST] = 7
      /\ events[SYNFIRST].event_time = 0 /\ events[SYNLAST].event_time = Never
      /\ \A f \in Events \ {SYNLAST} : events[f].next \in Events /\ p[events[f].next] = p[f] + 1
      /\ \A f \in Events \ {SYNFIRST} : events[f].prev \in Events /\ p[events[f].prev] = p[f] - 1
  BY DEF Listed, Linked, Placed, Ascending, Ends, Events, SYNFIRST, SYNLAST, EventLists
<1>3. Never \in Int
  BY TimesAssumption DEF Never
<1>4. CASE time < events[e].event_time
  <2> DEFINE stops == {f \in Events : ~(time < events[f].event_time)}
             places == {p[f] : f \in stops}
  <2>1. SYNFIRST \in stops
    BY <1>2
  <2>2. places \subseteq Places /\ places # {}
    BY <1>2, <2>1
  <2>3. PICK i \in places : \A j \in places : j <= i
    BY <2>2, FirstAndLastPlace
  <2>4. PICK last \in stops : p[last] = i
    BY <2>3
  <2>5. \A f \in Events : p[last] < p[f] => time < events[f].event_time
    BY <1>2, <2>2, <2>3, <2>4 DEF Places
  <2>6. last \in Events /\ ~(time < events[last].event_time)
    BY <2>4
  <2> HIDE DEF stops, places
  <2>7. p[last] < p[e]
    BY <1>1, <1>2, <1>4, <2>6 DEF Places
  <2> HIDE DEF rest, prv, nxt
  <2>8. \A f \in Events : time < events[f].event_time =>
          /\ events[f].prev \in Events /\ p[events[f].prev] < p[f]
          /\ ~(time < events[events[f].prev].event_time) => events[f].prev = last
    <3> SUFFICES ASSUME NEW f \in Events, time < events[f].event_time
                 PROVE  LET b == events[f].prev
                        IN b \in Events /\ p[b] < p[f] /\ (~(time < events[b].event_time) => b = last)
      OBVIOUS
    <3>1. f # SYNFIRST
      BY <1>2
    <3>2. events[f].prev \in Events /\ p[events[f].prev] = p[f] - 1
      BY <1>2, <3>1
    <3>3. p[last] < p[f]
      BY <1>2, <2>6 DEF Places
    <3> QED BY <1>2, <2>5, <2>6, <3>2, <3>3 DEF Places
  <2>9. WalkBack(events, prv, time) = IF time < events[prv].event_time THEN last ELSE prv
    <3>1. p \in [Events -> Nat]
      BY <1>2 DEF Places
    <3>2. PassesBack(events, time, p, last)
      BY <1>2, <2>6, <2>8 DEF PassesBack
    <3>3. time \in Int /\ prv \in Events /\ last \in Events
      BY <1>1, <2>6
    <3> QED BY <3>1, <3>2, <3>3, WalksBack
  <2>10. WalkBack(events, prv, time) = last
    BY <1>1, <1>2, <2>5, <2>6, <2>7, <2>9 DEF Places
  <2>11. Relink(events, e, time) = LinkAfter(rest, last, e, time)
    BY <1>1, <1>2, <1>4, <2>10 DEF Relink, rest, prv
  <2> QED BY <1>4, <2>5, <2>6, <2>7, <2>11, MovesBack DEF rest
<1>5. CASE time > events[e].event_time
  <2> DEFINE stops == {f \in Events : ~(time > events[f].event_time)}
             places == {p[f] : f \in stops}
  <2>1. SYNLAST \in stops
    BY <1>2, <1>3
  <2>2. places \subseteq Places /\ places # {}
    BY <1>2, <2>1
  <2>3. PICK i \in places : \A j \in places : i <= j
    BY <2>2, FirstAndLastPlace
  <2>4. PICK last \in stops : p[last] = i
    BY <2>3
  <2>5. \A f \in Events : p[f] < p[last] => time > events[f].event_time
    BY <1>2, <2>2, <2>3, <2>4 DEF Places
  <2>6. last \in Events /\ ~(time > events[last].event_time)
    BY <2>4
  <2> HIDE DEF stops, places
  <2>7. p[last] > p[e]
    BY <1>1, <1>2, <1>5, <2>6 DEF Places
  <2> DEFINE q == [f \in Events |-> 8 - p[f]]
  <2> HIDE DEF rest, prv, nxt
  <2>8. \A f \in Events : time > events[f].event_time =>
          /\ events[f].next \in Events /\ q[events[f].next] < q[f]
          /\ ~(time > events[events[f].next].event_time) => events[f].next = last
    <3> SUFFICES ASSUME NEW f \in Events, time > events[f].event_time
                 PROVE  LET b == events[f].next
                        IN b \in Events /\ q[b] < q[f] /\ (~(time > events[b].event_time) => b = last)
      OBVIOUS
    <3>1. f # SYNLAST
      BY <1>2, <1>3
    <3>2. events[f].next \in Events /\ p[events[f].next] = p[f] + 1
      BY <1>2, <3>1
    <3>3. p[f] < p[last]
      BY <1>2, <2>6 DEF Places
    <3> QED BY <1>2, <2>5, <2>6, <3>2, <3>3 DEF Places
  <2>9. WalkOn(events, nxt, time) = IF time > events[nxt].event_time THEN last ELSE nxt
    <3>1. q \in [Events -> Nat]
      BY <1>2 DEF Places
    <3> HIDE DEF q
    <3>2. PassesOn(events, time, q, last)
      BY <1>2, <2>6, <2>8 DEF PassesOn
    <3>3. time \in Int /\ nxt \in Events /\ last \in Events
      BY <1>1, <2>6
    <3> QED BY <3>1, <3>2, <3>3, WalksOn
  <2>10. WalkOn(events, nxt, time) = last
    BY <1>1, <1>2, <2>5, <2>6, <2>7, <2>9 DEF Places
  <2>11. Relink(events, e, time) = LinkAfter(rest, rest[last].prev, e, time)
    BY <1>1, <1>2, <1>5, <2>10 DEF Relink, rest, nxt
  <2> QED BY <1>5, <2>5, <2>6, <2>7, <2>11, MovesOn DEF rest
<1>6. CASE time = events[e].event_time
  <2>1. Relink(events, e, time) = events
    BY <1>6 DEF Relink
  <2> QED BY <1>6, <2>1 DEF IsList
<1>7. time < events[e].event_time \/ time > events[e].event_time \/ time = events[e].event_time
  <2>1. \A j, k \in Int : j < k \/ j > k \/ j = k
    OBVIOUS
  <2>2. time \in Int /\ events[e].event_time \in Int
    BY <1>1, <1>2
  <2> QED BY <2>1, <2>2, Zenon
<1> QED BY <1>4, <1>5, <1>6, <1>7, Zenon

\* From SYNFIRST on the links lead to every event: after n steps to the first n + 1 places.
LEMMA ListsAreWellLinked == IsList(sys.events) => WellLinked
<1> DEFINE events == sys.events
<1> SUFFICES ASSUME NEW p, Listed(events, p) PROVE WellLinked
  BY DEF IsList
<1> DEFINE after(s) == s \cup {events[e].next : e \in s \ {SYNLAST}}
           Is(r) == r = [n \in 0 .. Len(Order) |->
                           IF n = 0 THEN {SYNFIRST}
                           ELSE r[n - 1] \cup {events[e].next : e \in r[n - 1] \ {SYNLAST}}]
           upto(i) == {e \in Events : p[e] <= i + 1}
           found == [n \in 0 .. 7 |-> upto(n)]
           reach == CHOOSE r : Is(r)
<1>1. Len(Order) = 7
  BY DEF Order
<1>2. /\ p \in [Events -> Places] /\ SYNFIRST \in Events /\ SYNLAST \in Events
      /\ \A f, g \in Events : p[f] = p[g] => f = g
      /\ \A i \in Places : \E f \in Events : p[f] = i
      /\ \A f, g \in Events : p[f] <= p[g] => events[f].event_time <= events[g].event_time
      /\ p[SYNFIRST] = 1 /\ p[SYNLAST] = 7
      /\ \A f \in Events \ {SYNLAST} : events[f].next \in Events /\ p[events[f].next] = p[f] + 1
      /\ \A f \in Events \ {SYNFIRST} : events[f].prev \in Events /\ p[events[f].prev] = p[f] - 1
  BY DEF Listed, Linked, Placed, Ascending, Events
<1> HIDE DEF events
<1>3. upto(0) = {SYNFIRST}
  BY <1>2 DEF Places
<1>4. \A n \in 1 .. 7 : upto(n) = after(upto(n - 1))
  <2> SUFFICES ASSUME NEW n \in 1 .. 7 PROVE upto(n) = after(upto(n - 1))
    OBVIOUS
  <2>1. ASSUME NEW f \in upto(n) PROVE f \in after(upto(n - 1))
    <3>1. CASE f = SYNFIRST
      BY <1>2, <2>1, <3>1
    <3>2. CASE f # SYNFIRST
      <4>1. events[f].prev \in Events /\ p[events[f].prev] = p[f] - 1 /\ events[f].prev # SYNLAST
        BY <1>2, <2>1, <3>2 DEF Places
      <4>2. events[events[f].prev].next = f
        BY <1>2, <2>1, <4>1 DEF Places
      <4>3. events[f].prev \in upto(n - 1) \ {SYNLAST}
        BY <1>2, <2>1, <4>1 DEF Places
      <4> HIDE DEF upto
      <4> QED BY <4>2, <4>3
    <3> QED BY <3>1, <3>2
  <2>2. ASSUME NEW f \in after(upto(n - 1)) PROVE f \in upto(n)
    <3>1. CASE f \in upto(n - 1)
      BY <1>2, <3>1 DEF Places
    <3>2. CASE f \notin upto(n - 1)
      <4>1. PICK e \in upto(n - 1) \ {SYNLAST} : f = events[e].next
        BY <2>2, <3>2
      <4> QED BY <1>2, <4>1 DEF Places
    <3> QED BY <3>1, <3>2
  <2> HIDE DEF upto, after
  <2> QED BY <2>1, <2>2
<1> HIDE DEF upto
<1>5. Is(found)
  BY <1>1, <1>3, <1>4
<1>6. Is(reach)
  BY <1>5
<1>7. ASSUME NEW r, Is(r) PROVE r[0] = {SYNFIRST} /\ \A n \in 1 .. 7 : r[n] = after(r[n - 1])
  <2> DEFINE g == [n \in 0 .. Len(Order) |-> IF n = 0 THEN {SYNFIRST}
                           ELSE r[n - 1] \cup {events[e].next : e \in r[n - 1] \ {SYNLAST}}]
  <2>1. r = g
    BY <1>7, Zenon
  <2>2. g[0] = {SYNFIRST}
    BY <1>1
  <2>3. \A n \in 1 .. 7 : g[n] = after(r[n - 1])
    BY <1>1
  <2> HIDE DEF g, Is, after
  <2> QED BY <2>1, <2>2, <2>3, Zenon
<1>8. reach[0] = {SYNFIRST} /\ \A n \in 1 .. 7 : reach[n] = after(reach[n - 1])
  BY <1>6, <1>7, Zenon
<1>9. WellLinked <=> /\ reach[7] = Events
                     /\ \A e \in Events \ {SYNLAST} :
                          LET next == events[e].next
                          IN events[next].prev = e /\ events[e].event_time <= events[next].event_time
  BY <1>1 DEF WellLinked, events
<1> HIDE DEF reach, Is, found, after
<1>10. \A n \in 0 .. 6 : reach[n] = upto(n) => reach[n + 1] = upto(n + 1)
  BY <1>4, <1>8
<1>11. reach[7] = upto(7)
  <2>1. reach[0] = upto(0)
    BY <1>3, <1>8
  <2> QED BY <1>10, <2>1
<1>12. upto(7) = Events
  BY <1>2 DEF upto, Places
<1>13. ASSUME NEW e \in Events \ {SYNLAST}
       PROVE  LET next == events[e].next
              IN events[next].prev = e /\ events[e].event_time <= events[next].event_time
  <2> DEFINE next == events[e].next
  <2>1. next \in Events /\ p[next] = p[e] + 1 /\ next # SYNFIRST
    BY <1>2 DEF Places
  <2>2. events[next].prev \in Events /\ p[events[next].prev] = p[e]
    BY <1>2, <2>1 DEF Places
  <2> QED BY <1>2, <2>1, <2>2 DEF Places
<1> QED BY <1>9, <1>11, <1>12, <1>13

------------------------------------------------------------------------------
(* Components are brought up to date at a time t: no one is ahead of it and *)
(* no event is before it.                                                   *)

Systems == [events : EventLists, lastts : [Components -> Nat], Running : BOOLEAN, next_event_ts : Int]

Timed(s, t) ==
  /\ s \in Systems /\ IsList(s.events)
  /\ \A c \in Components : s.lastts[c] <= t /\ t <= s.events[c].event_time

\* next_event_ts is what the CPU must stop at.
Fresh(s) == s.next_event_ts = IF s.Running THEN NextTime(s.events) ELSE 0

\* What a component has scheduled at time t.
Ahead(t) == t + 1 .. t + PSX_EVENT_MAXTS

\* As long as the frame goes on, the GPU has not reached its end, and looks for it in time.
Watched(s) ==
  s.Running => /\ s.lastts["GPU"] < FrameLength
               /\ s.events["GPU"].event_time < FrameLength + PSX_EVENT_MAXTS

\* What becomes of s when components are updated to t: they advance to t only, events are
\* put ahead of t, the frame may end but not begin.
Moves(s, r, t) ==
  /\ \A c \in Components : r.lastts[c] = s.lastts[c] \/ r.lastts[c] = t
  /\ \A c \in Components : r.events[c].event_time = s.events[c].event_time \/ r.events[c].event_time \in Ahead(t)
  /\ r.Running => s.Running
  /\ Fresh(s) => Fresh(r)

\* ... with all but component c as they were.
Only(s, r, c) ==
  /\ r.Running = s.Running
  /\ \A d \in Components \ {c} : r.lastts[d] = s.lastts[d] /\ r.events[d].event_time = s.events[d].event_time

LEMMA MovesTransitive ==
  ASSUME NEW s, NEW r, NEW q, NEW t, Moves(s, r, t), Moves(r, q, t) PROVE Moves(s, q, t)
BY DEF Moves

LEMMA NamesOfEvents ==
  /\ Components \subseteq Events /\ SYNFIRST \in Events /\ SYNLAST \in Events
  /\ SYNFIRST \notin Components /\ SYNLAST \notin Components /\ SYNFIRST # SYNLAST
  /\ {"GPU", "CDC", "TIMER", "DMA", "FIO"} \subseteq Components
BY DEF Components, Events, SYNFIRST, SYNLAST

\* The first event of a list is its earliest.
LEMMA FirstIsLeast ==
  ASSUME NEW events, IsList(events)
  PROVE  /\ First(events) \in Events /\ NextTime(events) \in Int
         /\ \A c \in Components : NextTime(events) <= events[c].event_time
<1>1. PICK p : Listed(events, p)
  BY DEF IsList
<1>2. First(events) \in Events /\ p[First(events)] = 2
  BY <1>1, NamesOfEvents DEF Listed, Linked, Placed, First
<1>3. \A c \in Components : p[c] >= 2
  BY <1>1, ListLinks
<1> QED BY <1>1, <1>2, <1>3, NamesOfEvents DEF Listed, Linked, Placed, Places, Ascending, NextTime, EventLists

LEMMA SetEventMoves ==
  ASSUME NEW s, NEW t \in Nat, t <= 2 * PSX_EVENT_MAXTS, Timed(s, t), NEW c \in Components, NEW d \in Delays
  PROVE  LET r == PSX_SetEventNT(s, c, t + d)
         IN /\ Timed(r, t) /\ Moves(s, r, t) /\ Only(s, r, c) /\ Fresh(r)
            /\ r.lastts = s.lastts /\ r.events[c].event_time \in Ahead(t)
<1> DEFINE moved == Relink(s.events, c, t + d)
           next == IF s.Running THEN NextTime(moved) ELSE 0
           r == PSX_SetEventNT(s, c, t + d)
<1>1. PICK p : Listed(s.events, p)
  BY DEF Timed, IsList
<1>2. t + d \in Nat /\ t + d <= Never /\ t + d \in Ahead(t)
  BY TimesAssumption DEF Never, Ahead
<1>3. /\ IsList(moved) /\ moved[c].event_time = t + d
      /\ \A f \in Events \ {c} : moved[f].event_time = s.events[f].event_time
  BY <1>1, <1>2, RelinkMoves
<1>4. moved \in EventLists
  BY <1>3 DEF IsList, Listed
<1>5. next \in Int
  BY <1>3, FirstIsLeast
<1>6. r = [s EXCEPT !.events = moved, !.next_event_ts = next]
  BY DEF PSX_SetEventNT
<1> HIDE DEF moved, next, r
<1>7. /\ r \in Systems /\ r.events = moved /\ r.lastts = s.lastts /\ r.Running = s.Running
      /\ r.next_event_ts = next
  BY <1>4, <1>5, <1>6 DEF Timed, Systems
<1>8. Fresh(r)
  BY <1>7 DEF Fresh, next
<1>9. \A f \in Components \ {c} : r.events[f].event_time = s.events[f].event_time
  BY <1>3, <1>7, NamesOfEvents
<1>10. Timed(r, t)
  BY <1>2, <1>3, <1>7, <1>9 DEF Timed, Ahead
<1> QED BY <1>2, <1>3, <1>7, <1>8, <1>9, <1>10 DEF Moves, Only, r

LEMMA TouchMoves ==
  ASSUME NEW s, NEW t \in Nat, Timed(s, t), NEW c \in Components
  PROVE  LET r == Touch(s, c, t)
         IN /\ Timed(r, t) /\ Moves(s, r, t) /\ Only(s, r, c)
            /\ r.events = s.events /\ r.lastts[c] = t
BY DEF Touch, Timed, Systems, Moves, Only, Fresh, NextTime, First

LEMMA UpdateToMoves ==
  ASSUME NEW s, NEW t \in Nat, t <= 2 * PSX_EVENT_MAXTS, Timed(s, t), NEW c \in Components,
         NEW r \in UpdateTo(s, c, t)
  PROVE  Timed(r, t) /\ Moves(s, r, t) /\ Only(s, r, c)
<1>1. PICK d \in Delays : r = PSX_SetEventNT(Touch(s, c, t), c, t + d)
  BY DEF UpdateTo
<1> DEFINE q == Touch(s, c, t)
<1>2. Timed(q, t) /\ Moves(s, q, t) /\ Only(s, q, c)
  BY TouchMoves
<1> HIDE DEF q
<1>3. Timed(r, t) /\ Moves(q, r, t) /\ Only(q, r, c)
  BY <1>1, <1>2, SetEventMoves DEF q
<1> QED BY <1>2, <1>3, MovesTransitive DEF Only

LEMMA Exits ==
  ASSUME NEW s \in Systems
  PROVE  LET r == PSX_RequestMLExit(s)
         IN r \in Systems /\ r.events = s.events /\ r.lastts = s.lastts /\ ~r.Running /\ r.next_event_ts = 0
<1> DEFINE q == [s EXCEPT !.Running = FALSE]
           r == [q EXCEPT !.next_event_ts = 0]
<1>1. PSX_RequestMLExit(s) = r
  BY DEF PSX_RequestMLExit, Systems
<1>2. q \in Systems /\ q.events = s.events /\ q.lastts = s.lastts
  BY DEF Systems
<1>3. ~q.Running
  BY DEF Systems
<1> HIDE DEF q
<1>4. r \in Systems /\ r.events = q.events /\ r.lastts = q.lastts /\ r.Running = q.Running /\ r.next_event_ts = 0
  BY <1>2 DEF Systems
<1> HIDE DEF r
<1> QED BY <1>1, <1>2, <1>3, <1>4

\* The GPU's update reschedules others, never its own event; if it lets the frame go on, the
\* end of the frame has not come.
LEMMA GPUMoves ==
  ASSUME NEW s, NEW t \in Nat, t <= 2 * PSX_EVENT_MAXTS, Timed(s, t), NEW r \in GPU_Update(s, t)
  PROVE  /\ Timed(r, t) /\ Moves(s, r, t)
         /\ r.events["GPU"].event_time = s.events["GPU"].event_time
         /\ r.lastts["GPU"] = t
         /\ r.Running => s.Running /\ (t < FrameLength \/ t = s.lastts["GPU"])
<1> DEFINE gpu == Touch(s, "GPU", t)
           exit(u) == {PSX_RequestMLExit(u)} \cup (IF t < FrameLength THEN {u} ELSE {})
           lineHook(u) == {u} \cup UpdateTo(u, "FIO", t)
           Done(u) == /\ Timed(u, t) /\ Moves(s, u, t)
                      /\ u.events["GPU"].event_time = s.events["GPU"].event_time
                      /\ u.lastts["GPU"] = t
<1>1. Done(gpu) /\ (gpu.Running => s.Running)
  <2>1. "GPU" \in Components
    BY NamesOfEvents
  <2>2. Timed(gpu, t) /\ Moves(s, gpu, t) /\ Only(s, gpu, "GPU") /\ gpu.events = s.events /\ gpu.lastts["GPU"] = t
    BY <2>1, TouchMoves
  <2> HIDE DEF gpu
  <2> QED BY <2>2 DEF Moves
<1>2. ASSUME NEW u, Done(u), NEW c \in {"TIMER", "FIO"}, NEW v \in UpdateTo(u, c, t)
      PROVE  Done(v) /\ v.Running = u.Running
  <2>1. c \in Components /\ c # "GPU" /\ "GPU" \in Components
    BY NamesOfEvents
  <2>2. Timed(v, t) /\ Moves(u, v, t) /\ Only(u, v, c)
    BY <1>2, <2>1, UpdateToMoves
  <2> QED BY <1>2, <2>1, <2>2, MovesTransitive DEF Only
<1>3. ASSUME NEW u, Done(u), NEW v \in exit(u)
      PROVE  Done(v) /\ (v.Running => t < FrameLength /\ s.Running)
  <2>1. CASE v = u
    <3>1. v.Running => t < FrameLength
      <4>1. CASE t < FrameLength
        BY <4>1
      <4>2. CASE ~(t < FrameLength)
        <5>1. v = PSX_RequestMLExit(u)
          BY <1>3, <4>2
        <5> QED BY <1>3, <5>1 DEF PSX_RequestMLExit, Timed, Systems
      <4> QED BY <4>1, <4>2
    <3> QED BY <1>3, <2>1, <3>1 DEF Moves
  <2>2. CASE v = PSX_RequestMLExit(u)
    <3>1. u \in Systems
      BY <1>3 DEF Timed
    <3>2. v \in Systems /\ v.events = u.events /\ v.lastts = u.lastts /\ ~v.Running /\ v.next_event_ts = 0
      BY <2>2, <3>1, Exits
    <3>3. Fresh(v)
      BY <3>2 DEF Fresh
    <3> QED BY <1>3, <3>2, <3>3 DEF Timed, Moves
  <2> QED BY <1>3, <2>1, <2>2
<1> HIDE DEF exit
<1>4. CASE t = s.lastts["GPU"]
  <2>1. r = gpu
    BY <1>4 DEF GPU_Update
  <2> QED BY <1>1, <1>4, <2>1
<1>5. CASE t # s.lastts["GPU"]
  <2>1. CASE t < FrameLength /\ r = gpu
    BY <1>1, <2>1
  <2>2. CASE ~(t < FrameLength /\ r = gpu)
    <3>1. PICK u \in UpdateTo(gpu, "TIMER", t) : \E v \in exit(u) : \E w \in lineHook(v) : r \in UpdateTo(w, "TIMER", t)
      BY <1>5, <2>2 DEF GPU_Update, exit
    <3>2. PICK v \in exit(u) : \E w \in lineHook(v) : r \in UpdateTo(w, "TIMER", t)
      BY <3>1
    <3>3. PICK w \in lineHook(v) : r \in UpdateTo(w, "TIMER", t)
      BY <3>2
    <3> HIDE DEF gpu
    <3>4. Done(u)
      BY <1>1, <1>2, <3>1
    <3>5. Done(v) /\ (v.Running => t < FrameLength /\ s.Running)
      BY <1>3, <3>2, <3>4
    <3>6. w = v \/ w \in UpdateTo(v, "FIO", t)
      BY <3>3
    <3> HIDE DEF lineHook, Done
    <3>7. Done(w) /\ (w.Running => t < FrameLength /\ s.Running)
      BY <1>2, <3>5, <3>6
    <3>8. Done(r) /\ (r.Running => t < FrameLength /\ s.Running)
      BY <1>2, <3>3, <3>7
    <3> QED BY <3>8 DEF Done
  <2> QED BY <2>1, <2>2
<1> QED BY <1>4, <1>5

\* Update of any component; DMA's runs the GPU.
LEMMA UpdateMoves ==
  ASSUME NEW s, NEW t \in Nat, t <= 2 * PSX_EVENT_MAXTS, Timed(s, t), NEW c \in Components,
         NEW r \in UpdateOf(s, c, t)
  PROVE  /\ Timed(r, t) /\ Moves(s, r, t)
         /\ Watched(s) => Watched(r) /\ (c = "GPU" /\ r.Running => t < FrameLength)
<1>0. "GPU" \in Components /\ "DMA" \in Components
  BY NamesOfEvents
<1>1. s.lastts["GPU"] \in Nat
  BY <1>0 DEF Timed, Systems
<1>2. CASE c = "GPU"
  <2>1. r \in GPU_Update(s, t)
    BY <1>2 DEF UpdateOf
  <2>2. /\ Timed(r, t) /\ Moves(s, r, t) /\ r.events["GPU"].event_time = s.events["GPU"].event_time
        /\ r.lastts["GPU"] = t
        /\ r.Running => s.Running /\ (t < FrameLength \/ t = s.lastts["GPU"])
    BY <2>1, GPUMoves
  <2> QED BY <2>2 DEF Watched
<1>3. CASE c = "DMA"
  <2> DEFINE q == Touch(s, c, t)
  <2>1. r \in GPU_Update(q, t)
    BY <1>3 DEF UpdateOf
  <2>2. Timed(q, t) /\ Moves(s, q, t) /\ Only(s, q, c) /\ q.events = s.events
    BY TouchMoves
  <2> HIDE DEF q
  <2>3. /\ Timed(r, t) /\ Moves(q, r, t) /\ r.events["GPU"].event_time = q.events["GPU"].event_time
        /\ r.lastts["GPU"] = t
        /\ r.Running => q.Running /\ (t < FrameLength \/ t = q.lastts["GPU"])
    BY <2>1, <2>2, GPUMoves
  <2>4. q.lastts["GPU"] = s.lastts["GPU"] /\ q.Running = s.Running
    BY <1>0, <1>3, <2>2 DEF Only
  <2>5. Moves(s, r, t)
    BY <2>2, <2>3, MovesTransitive
  <2> QED BY <1>3, <2>2, <2>3, <2>4, <2>5 DEF Watched
<1>4. CASE c \notin {"GPU", "DMA"}
  <2>1. r = Touch(s, c, t)
    BY <1>4 DEF UpdateOf
  <2>2. Timed(r, t) /\ Moves(s, r, t) /\ Only(s, r, c) /\ r.events = s.events
    BY <2>1, TouchMoves
  <2>3. r.lastts["GPU"] = s.lastts["GPU"] /\ r.Running = s.Running
    BY <1>0, <1>4, <2>2 DEF Only
  <2> QED BY <1>4, <2>2, <2>3 DEF Watched
<1> QED BY <1>2, <1>3, <1>4

LEMMA UpdateAndScheduleMoves ==
  ASSUME NEW s, NEW t \in Nat, t <= 2 * PSX_EVENT_MAXTS, Timed(s, t), NEW c \in Components,
         NEW r \in UpdateAndSchedule(s, c, t)
  PROVE  /\ Timed(r, t) /\ Moves(s, r, t) /\ Fresh(r) /\ r.events[c].event_time \in Ahead(t)
         /\ Watched(s) => Watched(r)
<1>1. PICK u \in UpdateOf(s, c, t) : \E d \in Delays : r = PSX_SetEventNT(u, c, t + d)
  BY DEF UpdateAndSchedule
<1>2. PICK d \in Delays : r = PSX_SetEventNT(u, c, t + d)
  BY <1>1
<1>3. /\ Timed(u, t) /\ Moves(s, u, t)
      /\ Watched(s) => Watched(u) /\ (c = "GPU" /\ u.Running => t < FrameLength)
  BY UpdateMoves
<1>4. /\ Timed(r, t) /\ Moves(u, r, t) /\ Only(u, r, c) /\ Fresh(r)
      /\ r.lastts = u.lastts /\ r.events[c].event_time \in Ahead(t)
  BY <1>2, <1>3, SetEventMoves
<1>5. Moves(s, r, t)
  BY <1>3, <1>4, MovesTransitive
<1>6. Watched(s) => Watched(r)
  <2>1. "GPU" \in Components
    BY NamesOfEvents
  <2>2. CASE c = "GPU"
    BY <1>3, <1>4, <2>2, TimesAssumption DEF Watched, Ahead, Only
  <2>3. CASE c # "GPU"
    BY <1>3, <1>4, <2>1, <2>3 DEF Watched, Only
  <2> QED BY <2>2, <2>3
<1> QED BY <1>4, <1>5, <1>6

\* ForceEventUpdates puts every event ahead.
LEMMA ForceMoves ==
  ASSUME NEW s, NEW t \in Nat, t <= 2 * PSX_EVENT_MAXTS, Timed(s, t), NEW r \in ForceEventUpdates(s, t)
  PROVE  /\ Timed(r, t) /\ r.next_event_ts = NextTime(r.events) /\ (r.Running => s.Running)
         /\ \A c \in Components : /\ r.events[c].event_time \in Ahead(t)
                                  /\ r.lastts[c] = s.lastts[c] \/ r.lastts[c] = t
<1> DEFINE Done(u, cs) == /\ Timed(u, t) /\ (u.Running => s.Running)
                          /\ \A c \in Components : u.lastts[c] = s.lastts[c] \/ u.lastts[c] = t
                          /\ \A c \in cs : u.events[c].event_time \in Ahead(t)
<1>1. Done(s, {})
  OBVIOUS
<1>2. ASSUME NEW u, NEW cs \in SUBSET Components, Done(u, cs), NEW c \in Components, NEW v \in UpdateAndSchedule(u, c, t)
      PROVE  Done(v, cs \cup {c})
  <2>1. Timed(v, t) /\ Moves(u, v, t) /\ v.events[c].event_time \in Ahead(t)
    BY <1>2, UpdateAndScheduleMoves
  <2> QED BY <1>2, <2>1 DEF Moves
<1>3. PICK u1 \in UpdateAndSchedule(s, "GPU", t) : \E u2 \in UpdateAndSchedule(u1, "CDC", t) :
        \E u3 \in UpdateAndSchedule(u2, "TIMER", t) : \E u4 \in UpdateAndSchedule(u3, "DMA", t) :
        \E u5 \in UpdateAndSchedule(u4, "FIO", t) : r = [u5 EXCEPT !.next_event_ts = NextTime(u5.events)]
  BY DEF ForceEventUpdates
<1>4. PICK u2 \in UpdateAndSchedule(u1, "CDC", t) :
        \E u3 \in UpdateAndSchedule(u2, "TIMER", t) : \E u4 \in UpdateAndSchedule(u3, "DMA", t) :
        \E u5 \in UpdateAndSchedule(u4, "FIO", t) : r = [u5 EXCEPT !.next_event_ts = NextTime(u5.events)]
  BY <1>3
<1>5. PICK u3 \in UpdateAndSchedule(u2, "TIMER", t) : \E u4 \in UpdateAndSchedule(u3, "DMA", t) :
        \E u5 \in UpdateAndSchedule(u4, "FIO", t) : r = [u5 EXCEPT !.next_event_ts = NextTime(u5.events)]
  BY <1>4
<1>6. PICK u4 \in UpdateAndSchedule(u3, "DMA", t) :
        \E u5 \in UpdateAndSchedule(u4, "FIO", t) : r = [u5 EXCEPT !.next_event_ts = NextTime(u5.events)]
  BY <1>5
<1>7. PICK u5 \in UpdateAndSchedule(u4, "FIO", t) : r = [u5 EXCEPT !.next_event_ts = NextTime(u5.events)]
  BY <1>6
<1>8. Done(u5, Components)
  <2> HIDE DEF Done
  <2>1. Done(u1, {} \cup {"GPU"})
    BY <1>1, <1>2, NamesOfEvents
  <2>2. Done(u2, {"GPU"} \cup {"CDC"})
    BY <1>2, <2>1, NamesOfEvents
  <2>3. Done(u3, {"GPU", "CDC"} \cup {"TIMER"})
    BY <1>2, <2>2, NamesOfEvents
  <2>4. Done(u4, {"GPU", "CDC", "TIMER"} \cup {"DMA"})
    BY <1>2, <2>3, NamesOfEvents
  <2>5. Done(u5, {"GPU", "CDC", "TIMER", "DMA"} \cup {"FIO"})
    BY <1>2, <2>4, NamesOfEvents
  <2>6. {"GPU", "CDC", "TIMER", "DMA"} \cup {"FIO"} = Components
    BY DEF Components
  <2> QED BY <2>5, <2>6
<1> DEFINE next == NextTime(u5.events)
<1>9. next \in Int
  BY <1>8, FirstIsLeast DEF Timed
<1> HIDE DEF next
<1>10. /\ r \in Systems /\ r.events = u5.events /\ r.lastts = u5.lastts /\ r.Running = u5.Running
       /\ r.next_event_ts = next
  BY <1>7, <1>8, <1>9 DEF Timed, Systems, next
<1> QED BY <1>8, <1>10 DEF Timed, next

\* EventReset makes a list.
LEMMA ResetIsList ==
  /\ IsList(EventReset)
  /\ \A c \in Components : EventReset[c].event_time = PSX_EVENT_MAXTS
<1> DEFINE p == [e \in Events |-> CASE e = SYNFIRST -> 1 [] e = "GPU" -> 2 [] e = "CDC" -> 3 [] e = "TIMER" -> 4
                                     [] e = "DMA" -> 5 [] e = "FIO" -> 6 [] e = SYNLAST -> 7]
<1>1. /\ p[SYNFIRST] = 1 /\ p["GPU"] = 2 /\ p["CDC"] = 3 /\ p["TIMER"] = 4 /\ p["DMA"] = 5 /\ p["FIO"] = 6
      /\ p[SYNLAST] = 7
  BY DEF Events, Components, SYNFIRST, SYNLAST
<1>2. \A e \in Events : e \in {SYNFIRST, "GPU", "CDC", "TIMER", "DMA", "FIO", SYNLAST}
  BY DEF Events, Components
<1>3. Len(Order) = 7 /\ DOMAIN Order = 1 .. 7
  BY DEF Order
<1>4. \A i \in 1 .. 7 : Order[i] \in Events /\ p[Order[i]] = i
  <2>1. /\ Order[1] = SYNFIRST /\ Order[2] = "GPU" /\ Order[3] = "CDC" /\ Order[4] = "TIMER" /\ Order[5] = "DMA"
        /\ Order[6] = "FIO" /\ Order[7] = SYNLAST
    BY DEF Order
  <2> HIDE DEF p
  <2> QED BY <1>1, <2>1 DEF Events, Components
<1>5. \A e \in Events : p[e] \in 1 .. 7 /\ Order[p[e]] = e
  <2> HIDE DEF p
  <2> QED BY <1>1, <1>2 DEF Order
<1>6. p \in [Events -> Places]
  BY <1>5 DEF Places
<1> HIDE DEF p
<1> DEFINE time(e) == CASE e = SYNFIRST -> 0 [] e = SYNLAST -> Never [] OTHER -> PSX_EVENT_MAXTS
           place(e) == CHOOSE i \in DOMAIN Order : Order[i] = e
           prev(i) == IF i = 1 THEN "none" ELSE Order[i - 1]
           next(i) == IF i = Len(Order) THEN "none" ELSE Order[i + 1]
           entry(e, i) == [event_time |-> time(e), prev |-> prev(i), next |-> next(i)]
<1>7. \A e \in Events : place(e) = p[e]
  BY <1>3, <1>4, <1>5
<1>8. EventReset = [e \in Events |-> entry(e, place(e))]
  BY Zenon DEF EventReset
<1>9. SYNFIRST # SYNLAST /\ SYNFIRST \in Events /\ SYNLAST \in Events /\ Components \subseteq Events
      /\ SYNFIRST \notin Components /\ SYNLAST \notin Components
  BY NamesOfEvents
<1>10. /\ time(SYNFIRST) = 0 /\ time(SYNLAST) = Never
       /\ \A e \in Events \ {SYNFIRST, SYNLAST} : time(e) = PSX_EVENT_MAXTS
       /\ \A e \in Events : time(e) \in Int
  BY <1>9, TimesAssumption DEF Never
<1> HIDE DEF time, place
<1>11. \A e \in Events : /\ EventReset[e].event_time = time(e) /\ EventReset[e].prev = prev(p[e])
                         /\ EventReset[e].next = next(p[e])
  BY <1>7, <1>8
<1>12. EventReset \in EventLists
  <2>1. \A i \in 1 .. 7 : prev(i) \in Links /\ next(i) \in Links
    BY <1>3, <1>4 DEF Links
  <2> HIDE DEF prev, next
  <2>2. \A e \in Events : entry(e, p[e]) \in [event_time : Int, prev : Links, next : Links]
    BY <1>5, <1>10, <2>1
  <2> HIDE DEF entry
  <2> QED BY <1>7, <1>8, <2>2 DEF EventLists
<1>13. Placed(p)
  BY <1>1, <1>4, <1>5, <1>6 DEF Placed, Places
<1>14. Linked(EventReset, p)
  <2>1. ASSUME NEW e \in Events \ {SYNLAST} PROVE EventReset[e].next \in Events /\ p[EventReset[e].next] = p[e] + 1
    <3>1. p[e] # 7
      BY <1>1, <1>5, <1>9
    <3>2. EventReset[e].next = Order[p[e] + 1]
      BY <1>3, <1>11, <3>1
    <3> QED BY <1>4, <1>5, <3>1, <3>2
  <2>2. ASSUME NEW e \in Events \ {SYNFIRST} PROVE EventReset[e].prev \in Events /\ p[EventReset[e].prev] = p[e] - 1
    <3>1. p[e] # 1
      BY <1>1, <1>5, <1>9
    <3>2. EventReset[e].prev = Order[p[e] - 1]
      BY <1>11, <3>1
    <3> QED BY <1>4, <1>5, <3>1, <3>2
  <2> QED BY <1>13, <2>1, <2>2 DEF Linked
<1>15. Ascending(EventReset, p)
  <2> SUFFICES ASSUME NEW a \in Events, NEW b \in Events, p[a] <= p[b] PROVE time(a) <= time(b)
    BY <1>11, Zenon DEF Ascending
  <2>1. 0 <= PSX_EVENT_MAXTS /\ PSX_EVENT_MAXTS <= Never /\ 0 <= Never /\ PSX_EVENT_MAXTS \in Int /\ Never \in Int
    BY TimesAssumption DEF Never
  <2>2. a = SYNFIRST \/ b = SYNLAST \/ (a \notin {SYNFIRST, SYNLAST} /\ b \notin {SYNFIRST, SYNLAST})
    <3>1. p[a] \in 1..7 /\ p[b] \in 1..7 /\ Order[p[a]] = a /\ Order[p[b]] = b
      BY <1>5, Zenon
    <3>2. p[SYNFIRST] = 1 /\ p[SYNLAST] = 7
      BY <1>1, Zenon
    <3>3. b = SYNFIRST => p[a] = 1
      BY <3>1, <3>2
    <3>4. a = SYNLAST => p[b] = 7
      BY <3>1, <3>2
    <3>5. Order[1] = SYNFIRST /\ Order[7] = SYNLAST
      BY <1>5, <1>9, <3>2, Zenon
    <3> QED BY <3>1, <3>3, <3>4, <3>5, Zenon
  <2>3. time(SYNFIRST) <= time(b) /\ time(a) <= time(SYNLAST)
    BY <1>9, <1>10, <2>1
  <2>4. CASE a \notin {SYNFIRST, SYNLAST} /\ b \notin {SYNFIRST, SYNLAST}
    BY <1>10, <2>1, <2>4
  <2> QED BY <2>2, <2>3, <2>4, Zenon
<1>16. Ends(EventReset)
  BY <1>9, <1>10, <1>11 DEF Ends
<1>17. Listed(EventReset, p)
  BY <1>12, <1>14, <1>15, <1>16 DEF Listed
<1>18. \A c \in Components : EventReset[c].event_time = PSX_EVENT_MAXTS
  BY <1>9, <1>10, <1>11
<1> QED BY <1>17, <1>18 DEF IsList

------------------------------------------------------------------------------
(* The invariant.                                                           *)

\* While the frame runs the CPU cannot pass the GPU's event but by what its last instruction costs.
Latest == FrameLength + PSX_EVENT_MAXTS + MaxStep + (IF phase = "access" THEN 0 ELSE CDCReadTime)

Phases == {"cpu", "access", "handler", "update", "rebase", "between"}

IInv ==
  /\ phase \in Phases /\ timestamp \in Nat /\ access \in Accesses \cup {NoAccess}
  /\ phase = "access" => access \in Accesses
  /\ sys \in Systems /\ IsList(sys.events)
  /\ \A c \in Components : sys.lastts[c] <= timestamp
  /\ \A b, c \in Components : sys.lastts[b] <= sys.events[c].event_time
  /\ timestamp <= Latest
  /\ Watched(sys)
  /\ phase \in {"cpu", "access", "handler", "update"} => Fresh(sys)
  /\ phase \in {"update", "rebase", "between"} => ~sys.Running
  /\ phase = "update" => \A c \in Components : timestamp <= sys.events[c].event_time
  /\ phase \in {"rebase", "between"} =>
       /\ sys.next_event_ts = NextTime(sys.events)
       /\ \A c \in Components : sys.events[c].event_time \in Ahead(timestamp)
  /\ phase = "between" => timestamp = 0

LEMMA PoweredInv ==
  ASSUME NEW running \in BOOLEAN, ~running, NEW r \in Powered(running)
  PROVE  /\ Timed(r, 0) /\ ~r.Running /\ r.next_event_ts = NextTime(r.events)
         /\ \A c \in Components : r.events[c].event_time \in Ahead(0)
<1> DEFINE s == [events |-> EventReset, lastts |-> Zero, Running |-> running, next_event_ts |-> 0]
<1>1. EventReset \in EventLists
  BY ResetIsList DEF IsList, Listed
<1>2. Zero \in [Components -> Nat] /\ \A c \in Components : Zero[c] = 0
  BY DEF Zero
<1>3. s \in Systems /\ s.events = EventReset /\ s.lastts = Zero /\ ~s.Running
  BY <1>1, <1>2 DEF Systems
<1>4. r \in ForceEventUpdates(s, 0)
  BY DEF Powered
<1> HIDE DEF s
<1>5. Timed(s, 0)
  BY <1>2, <1>3, ResetIsList, TimesAssumption DEF Timed
<1>6. 0 <= 2 * PSX_EVENT_MAXTS /\ 0 \in Nat
  BY TimesAssumption
<1> QED BY <1>3, <1>4, <1>5, <1>6, ForceMoves

LEMMA InitInv == Loop_Init => IInv
<1> SUFFICES ASSUME Loop_Init PROVE IInv
  OBVIOUS
<1>1. /\ Timed(sys, 0) /\ ~sys.Running /\ sys.next_event_ts = NextTime(sys.events)
      /\ \A c \in Components : sys.events[c].event_time \in Ahead(0)
  BY PoweredInv DEF Loop_Init
<1>2. 0 <= Latest
  BY TimesAssumption DEF Latest, Loop_Init
<1> QED BY <1>1, <1>2 DEF IInv, Loop_Init, Timed, Systems, Watched, Ahead, Phases

LEMMA LatestIsInTime == phase \in Phases => Latest <= 2 * PSX_EVENT_MAXTS /\ Latest \in Nat
BY TimesAssumption DEF Latest, Phases

\* An instruction begins before the GPU's event.
LEMMA BeforeEvents ==
  ASSUME IInv, phase = "cpu", timestamp < sys.next_event_ts
  PROVE  /\ sys.Running /\ timestamp < FrameLength + PSX_EVENT_MAXTS
         /\ \A c \in Components : timestamp < sys.events[c].event_time
<1>1. Fresh(sys) /\ timestamp \in Nat /\ sys \in Systems /\ IsList(sys.events) /\ Watched(sys)
  BY DEF IInv
<1>2. sys.Running
  BY <1>1 DEF Fresh
<1>3. timestamp < NextTime(sys.events)
  BY <1>1, <1>2 DEF Fresh
<1>4. \A c \in Components : timestamp < sys.events[c].event_time
  <2> SUFFICES ASSUME NEW c \in Components PROVE timestamp < sys.events[c].event_time
    OBVIOUS
  <2>1. NextTime(sys.events) <= sys.events[c].event_time /\ NextTime(sys.events) \in Int
    BY <1>1, FirstIsLeast
  <2>2. sys.events[c].event_time \in Int
    BY <1>1, NamesOfEvents DEF Systems, EventLists
  <2> QED BY <1>1, <1>3, <2>1, <2>2
<1>5. sys.events["GPU"].event_time \in Int
  BY <1>1, NamesOfEvents DEF Systems, EventLists
<1> QED BY <1>1, <1>2, <1>4, <1>5, NamesOfEvents, TimesAssumption DEF Watched

\* After an update to t the invariant of sys holds at any later time.
LEMMA UpdatedInv ==
  ASSUME NEW r, NEW t \in Nat, Timed(r, t), NEW now \in Nat, t <= now
  PROVE  /\ r \in Systems /\ IsList(r.events)
         /\ \A c \in Components : r.lastts[c] <= now
         /\ \A b, c \in Components : r.lastts[b] <= r.events[c].event_time
<1>1. \A c \in Components : r.lastts[c] \in Nat /\ r.events[c].event_time \in Int
  BY NamesOfEvents DEF Timed, Systems, EventLists
<1> QED BY <1>1 DEF Timed

LEMMA StartFrameInv == IInv /\ StartFrame => IInv'
<1> SUFFICES ASSUME IInv, StartFrame PROVE IInv'
  OBVIOUS
<1> DEFINE r == [sys EXCEPT !.Running = TRUE]
<1>1. sys \in Systems /\ IsList(sys.events) /\ sys.next_event_ts = NextTime(sys.events) /\ timestamp = 0
      /\ \A c \in Components : sys.events[c].event_time \in Ahead(0) /\ sys.lastts[c] <= 0
  BY DEF IInv, StartFrame
<1>2. r \in Systems
  BY <1>1 DEF Systems
<1>3. r.Running
  BY <1>1 DEF Systems
<1>4. r.events = sys.events /\ r.lastts = sys.lastts /\ r.next_event_ts = sys.next_event_ts
  BY <1>1 DEF Systems
<1>5. sys' = r /\ phase' = "cpu" /\ timestamp' = timestamp /\ access' = access
  BY DEF StartFrame
<1> HIDE DEF r
<1>6. Watched(r)
  <2>1. "GPU" \in Components
    BY NamesOfEvents
  <2>2. sys.events["GPU"].event_time \in Ahead(0) /\ sys.lastts["GPU"] <= 0 /\ sys.lastts["GPU"] \in Nat
    BY <1>1, <2>1 DEF Systems
  <2> QED BY <1>4, <2>2, TimesAssumption DEF Watched, Ahead
<1>7. Fresh(r)
  BY <1>1, <1>3, <1>4 DEF Fresh
<1>8. timestamp' <= Latest'
  BY <1>1, <1>5, TimesAssumption DEF Latest
<1> QED BY <1>1, <1>2, <1>4, <1>5, <1>6, <1>7, <1>8 DEF IInv, Phases

\* Loading a state and a reset: all events are ahead of the beginning of the frame.
LEMMA BetweenInv ==
  ASSUME IInv, phase = "between", UNCHANGED <<phase, timestamp, access>>, Timed(sys', 0), ~sys'.Running,
         sys'.next_event_ts = NextTime(sys'.events), \A c \in Components : sys'.events[c].event_time \in Ahead(0)
  PROVE  IInv'
<1>1. timestamp' <= Latest'
  BY TimesAssumption DEF Latest, IInv
<1>2. timestamp' = 0
  BY DEF IInv
<1>3. /\ sys' \in Systems /\ IsList(sys'.events) /\ \A c \in Components : sys'.lastts[c] <= 0
      /\ \A b, c \in Components : sys'.lastts[b] <= sys'.events[c].event_time
  BY UpdatedInv
<1> QED BY <1>1, <1>2, <1>3 DEF IInv, Watched, Phases

LEMMA StateActionInv == IInv /\ StateAction => IInv'
<1> SUFFICES ASSUME IInv, StateAction PROVE IInv'
  OBVIOUS
<1>1. /\ phase = "between" /\ timestamp = 0 /\ ~sys.Running /\ sys' \in ForceEventUpdates(sys, 0)
      /\ UNCHANGED <<phase, timestamp, access>>
  BY DEF IInv, StateAction
<1>2. Timed(sys, 0)
  <2>1. \A c \in Components : sys.events[c].event_time \in Ahead(0) /\ sys.lastts[c] <= 0
    BY <1>1 DEF IInv
  <2> QED BY <2>1, TimesAssumption DEF Timed, Ahead, IInv
<1>3. 0 <= 2 * PSX_EVENT_MAXTS /\ 0 \in Nat
  BY TimesAssumption
<1>4. /\ Timed(sys', 0) /\ ~sys'.Running /\ sys'.next_event_ts = NextTime(sys'.events)
      /\ \A c \in Components : sys'.events[c].event_time \in Ahead(0)
  BY <1>1, <1>2, <1>3, ForceMoves
<1> QED BY <1>1, <1>4, BetweenInv

LEMMA PSX_PowerInv == IInv /\ PSX_Power => IInv'
<1> SUFFICES ASSUME IInv, PSX_Power PROVE IInv'
  OBVIOUS
<1>1. /\ phase = "between" /\ ~sys.Running /\ sys.Running \in BOOLEAN /\ sys' \in Powered(sys.Running)
      /\ UNCHANGED <<phase, timestamp, access>>
  BY DEF IInv, PSX_Power, Systems
<1>2. /\ Timed(sys', 0) /\ ~sys'.Running /\ sys'.next_event_ts = NextTime(sys'.events)
      /\ \A c \in Components : sys'.events[c].event_time \in Ahead(0)
  BY <1>1, PoweredInv
<1> QED BY <1>1, <1>2, BetweenInv

LEMMA InstructionInv == ASSUME NEW d \in 1 .. MaxStep PROVE IInv /\ Instruction(d) => IInv'
<1> SUFFICES ASSUME IInv, Instruction(d) PROVE IInv'
  OBVIOUS
<1>1. timestamp < FrameLength + PSX_EVENT_MAXTS /\ timestamp \in Nat /\ timestamp' = timestamp + d /\ phase = "cpu"
      /\ UNCHANGED <<phase, access, sys>>
  BY BeforeEvents DEF Instruction, IInv
<1>2. timestamp' <= Latest' /\ timestamp' \in Nat /\ timestamp <= timestamp'
  BY <1>1, TimesAssumption DEF Latest
<1>3. \A c \in Components : sys.lastts[c] <= timestamp'
  BY <1>1, <1>2 DEF IInv, Systems
<1> QED BY <1>1, <1>2, <1>3 DEF IInv, Systems

LEMMA StartAccessInv ==
  ASSUME NEW a \in Accesses, NEW d \in 0 .. MaxStep PROVE IInv /\ StartAccess(a, d) => IInv'
<1> SUFFICES ASSUME IInv, StartAccess(a, d) PROVE IInv'
  OBVIOUS
<1>1. timestamp < FrameLength + PSX_EVENT_MAXTS /\ timestamp \in Nat /\ timestamp' = timestamp + d /\ phase = "cpu"
      /\ phase' = "access" /\ access' = a /\ sys' = sys
  BY BeforeEvents DEF StartAccess, IInv
<1>2. timestamp' <= Latest' /\ timestamp' \in Nat /\ timestamp <= timestamp'
  BY <1>1, TimesAssumption DEF Latest
<1>3. \A c \in Components : sys.lastts[c] <= timestamp'
  BY <1>1, <1>2 DEF IInv, Systems
<1> QED BY <1>1, <1>2, <1>3 DEF IInv, Phases

LEMMA HandleEventMoves ==
  ASSUME IInv, HandleEvent
  PROVE  LET e == First(sys.events)
             t == NextTime(sys.events)
         IN /\ e \in Components /\ t \in Nat /\ t <= timestamp /\ t = sys.events[e].event_time
            /\ Timed(sys, t) /\ Timed(sys', t) /\ Moves(sys, sys', t) /\ Fresh(sys') /\ Watched(sys')
            /\ sys'.events[e].event_time \in Ahead(t)
<1> DEFINE e == First(sys.events)
           t == NextTime(sys.events)
<1>1. /\ e \in Components /\ t = sys.events[e].event_time /\ timestamp >= t
      /\ sys' \in UpdateAndSchedule(sys, e, t)
  BY DEF HandleEvent, NextTime
<1>2. t \in Int /\ \A c \in Components : t <= sys.events[c].event_time
  BY FirstIsLeast DEF IInv
<1> HIDE DEF t
<1>3. \A c \in Components : sys.lastts[c] \in Nat /\ sys.lastts[c] <= t
  BY <1>1 DEF IInv, Systems
<1>4. t \in Nat
  BY <1>1, <1>2, <1>3
<1>5. Timed(sys, t)
  BY <1>2, <1>3 DEF Timed, IInv
<1>6. t <= 2 * PSX_EVENT_MAXTS
  BY <1>1, <1>2, LatestIsInTime, TimesAssumption DEF IInv
<1>7. Timed(sys', t) /\ Moves(sys, sys', t) /\ Fresh(sys') /\ sys'.events[e].event_time \in Ahead(t) /\ Watched(sys')
  BY <1>1, <1>4, <1>5, <1>6, UpdateAndScheduleMoves DEF IInv
<1> QED BY <1>1, <1>2, <1>4, <1>5, <1>7 DEF t, IInv

LEMMA HandleEventInv == IInv /\ HandleEvent => IInv'
<1> SUFFICES ASSUME IInv, HandleEvent PROVE IInv'
  OBVIOUS
<1> DEFINE t == NextTime(sys.events)
<1>1. t \in Nat /\ t <= timestamp /\ Timed(sys', t) /\ Fresh(sys') /\ Watched(sys')
  BY HandleEventMoves
<1>2. UNCHANGED <<phase, timestamp, access>> /\ phase \in {"access", "handler"}
  BY DEF HandleEvent
<1> HIDE DEF t
<1>3. /\ sys' \in Systems /\ IsList(sys'.events) /\ \A c \in Components : sys'.lastts[c] <= timestamp
      /\ \A b, c \in Components : sys'.lastts[b] <= sys'.events[c].event_time
  BY <1>1, UpdatedInv DEF IInv
<1>4. timestamp' <= Latest'
  BY <1>2 DEF IInv, Latest
<1> QED BY <1>1, <1>2, <1>3, <1>4 DEF IInv

\* The register access: no event is due, and only the last one does not come before t.
LEMMA AccessMoves ==
  ASSUME IInv, Access
  PROVE  /\ timestamp' \in Nat /\ timestamp <= timestamp' /\ timestamp' <= timestamp + CDCReadTime
         /\ \/ sys' = sys
            \/ Timed(sys, timestamp') /\ Timed(sys', timestamp') /\ Moves(sys, sys', timestamp')
               /\ Watched(sys')
<1> DEFINE a == access
           t == timestamp'
<1>1. /\ phase = "access" /\ timestamp < NextTime(sys.events) /\ sys' \in AccessOf(a, t) /\ timestamp \in Nat
      /\ t = timestamp + (IF a.write THEN 0 ELSE ReadTime(a.dev)) /\ a \in Accesses
  BY DEF Access, UpToDate, IInv
<1>2. t \in Nat /\ timestamp <= t /\ t <= timestamp + CDCReadTime
  BY <1>1, TimesAssumption DEF ReadTime
<1>3. \A c \in Components : timestamp + 1 <= sys.events[c].event_time
  <2> SUFFICES ASSUME NEW c \in Components PROVE timestamp + 1 <= sys.events[c].event_time
    OBVIOUS
  <2>1. NextTime(sys.events) \in Int /\ NextTime(sys.events) <= sys.events[c].event_time
    BY FirstIsLeast DEF IInv
  <2>2. sys.events[c].event_time \in Int
    BY NamesOfEvents DEF IInv, Systems, EventLists
  <2> QED BY <1>1, <2>1, <2>2
<1>4. t <= 2 * PSX_EVENT_MAXTS
  BY <1>1, <1>2, TimesAssumption DEF IInv, Latest
<1>5. CASE a.dev = "CDC" /\ ~a.write
  BY <1>1, <1>2, <1>5 DEF AccessOf
<1>6. CASE ~(a.dev = "CDC" /\ ~a.write)
  <2>1. t <= timestamp + 1
    BY <1>1, <1>6 DEF ReadTime
  <2>2. Timed(sys, t)
    <3>1. \A c \in Components : sys.lastts[c] \in Nat /\ sys.events[c].event_time \in Int
      BY NamesOfEvents DEF IInv, Systems, EventLists
    <3> QED BY <1>1, <1>2, <1>3, <2>1, <3>1 DEF Timed, IInv
  <2>3. \/ sys' = sys
        \/ \E c \in Components : sys' \in UpdateAndSchedule(sys, c, t) \/ sys' \in UpdateOf(sys, c, t)
    BY <1>1, NamesOfEvents DEF AccessOf, Accesses
  <2>4. Watched(sys)
    BY DEF IInv
  <2>5. ASSUME NEW c \in Components, sys' \in UpdateAndSchedule(sys, c, t)
        PROVE  Timed(sys', t) /\ Moves(sys, sys', t) /\ Watched(sys')
    BY <1>2, <1>4, <2>2, <2>4, <2>5, UpdateAndScheduleMoves
  <2>6. ASSUME NEW c \in Components, sys' \in UpdateOf(sys, c, t)
        PROVE  Timed(sys', t) /\ Moves(sys, sys', t) /\ Watched(sys')
    BY <1>2, <1>4, <2>2, <2>4, <2>6, UpdateMoves
  <2> QED BY <1>2, <2>2, <2>3, <2>5, <2>6
<1> QED BY <1>5, <1>6

LEMMA AccessInv == IInv /\ Access => IInv'
<1> SUFFICES ASSUME IInv, Access PROVE IInv'
  OBVIOUS
<1>1. phase = "access" /\ phase' = "cpu" /\ access' = NoAccess /\ timestamp \in Nat
  BY DEF Access, IInv
<1>2. timestamp' \in Nat /\ timestamp <= timestamp' /\ timestamp' <= timestamp + CDCReadTime
  BY AccessMoves
<1>3. timestamp' <= Latest'
  BY <1>1, <1>2, TimesAssumption DEF IInv, Latest
<1>4. CASE sys' = sys
  <2>1. \A c \in Components : sys.lastts[c] <= timestamp'
    BY <1>1, <1>2 DEF IInv, Systems
  <2> QED BY <1>1, <1>2, <1>3, <1>4, <2>1 DEF IInv, Phases
<1>5. CASE Timed(sys, timestamp') /\ Timed(sys', timestamp') /\ Moves(sys, sys', timestamp') /\ Watched(sys')
  <2>1. /\ sys' \in Systems /\ IsList(sys'.events) /\ \A c \in Components : sys'.lastts[c] <= timestamp'
        /\ \A b, c \in Components : sys'.lastts[b] <= sys'.events[c].event_time
    BY <1>2, <1>5, UpdatedInv
  <2>2. Fresh(sys')
    BY <1>1, <1>5 DEF IInv, Moves
  <2> QED BY <1>1, <1>2, <1>3, <1>5, <2>1, <2>2 DEF IInv, Phases
<1> QED BY <1>4, <1>5, AccessMoves

LEMMA LeaveLoopInv == IInv /\ LeaveLoop => IInv'
<1> SUFFICES ASSUME IInv, LeaveLoop PROVE IInv'
  OBVIOUS
<1>1. phase = "cpu" /\ phase' = "handler" /\ UNCHANGED <<timestamp, access, sys>>
  BY DEF LeaveLoop
<1>2. timestamp' <= Latest'
  BY <1>1 DEF IInv, Latest
<1> QED BY <1>1, <1>2 DEF IInv, Phases

LEMMA HandlerReturnsInv == IInv /\ HandlerReturns => IInv'
<1> SUFFICES ASSUME IInv, HandlerReturns PROVE IInv'
  OBVIOUS
<1>1. /\ phase = "handler" /\ timestamp < NextTime(sys.events) /\ UNCHANGED <<timestamp, access, sys>>
      /\ phase' = (IF sys.Running THEN "cpu" ELSE "update") /\ timestamp \in Nat /\ IsList(sys.events)
  BY DEF HandlerReturns, IInv
<1>2. timestamp' <= Latest'
  BY <1>1 DEF IInv, Latest
<1>3. \A c \in Components : timestamp <= sys.events[c].event_time
  <2> SUFFICES ASSUME NEW c \in Components PROVE timestamp <= sys.events[c].event_time
    OBVIOUS
  <2>1. NextTime(sys.events) \in Int /\ NextTime(sys.events) <= sys.events[c].event_time
    BY <1>1, FirstIsLeast
  <2>2. sys.events[c].event_time \in Int
    BY NamesOfEvents DEF IInv, Systems, EventLists
  <2> QED BY <1>1, <2>1, <2>2
<1>4. phase' \in {"cpu", "update"} /\ (phase' = "update" => ~sys.Running)
  BY <1>1
<1> QED BY <1>1, <1>2, <1>3, <1>4 DEF IInv, Phases

\* The update of everything at the end of the frame.
LEMMA UpdateAllMoves ==
  ASSUME IInv, UpdateAll
  PROVE  /\ Timed(sys, timestamp) /\ Timed(sys', timestamp) /\ ~sys'.Running
         /\ sys'.next_event_ts = NextTime(sys'.events)
         /\ \A c \in Components : /\ sys'.events[c].event_time \in Ahead(timestamp)
                                  /\ sys'.lastts[c] = sys.lastts[c] \/ sys'.lastts[c] = timestamp
<1>1. phase = "update" /\ sys' \in ForceEventUpdates(sys, timestamp) /\ timestamp \in Nat /\ ~sys.Running
  BY DEF UpdateAll, IInv
<1>2. Timed(sys, timestamp)
  BY <1>1 DEF IInv, Timed
<1>3. timestamp <= 2 * PSX_EVENT_MAXTS
  BY <1>1, LatestIsInTime, TimesAssumption DEF IInv
<1> QED BY <1>1, <1>2, <1>3, ForceMoves

LEMMA UpdateAllInv == IInv /\ UpdateAll => IInv'
<1> SUFFICES ASSUME IInv, UpdateAll PROVE IInv'
  OBVIOUS
<1>1. phase = "update" /\ phase' = "rebase" /\ UNCHANGED <<timestamp, access>> /\ timestamp \in Nat
  BY DEF UpdateAll, IInv
<1>2. /\ Timed(sys', timestamp) /\ ~sys'.Running /\ sys'.next_event_ts = NextTime(sys'.events)
      /\ \A c \in Components : sys'.events[c].event_time \in Ahead(timestamp)
  BY UpdateAllMoves
<1>3. timestamp' <= Latest'
  BY <1>1 DEF IInv, Latest
<1>4. /\ sys' \in Systems /\ IsList(sys'.events) /\ \A c \in Components : sys'.lastts[c] <= timestamp
      /\ \A b, c \in Components : sys'.lastts[b] <= sys'.events[c].event_time
  BY <1>1, <1>2, UpdatedInv
<1> QED BY <1>1, <1>2, <1>3, <1>4 DEF IInv, Watched, Phases

\* RebaseTS moves the components' events together, and leaves them between the two ends.
LEMMA RebasedMoves ==
  ASSUME IsList(sys.events), timestamp \in Nat, \A c \in Components : sys.events[c].event_time \in Ahead(timestamp)
  PROVE  LET events == RebasedEvents(sys.events)
         IN IsList(events) /\ \A c \in Components : events[c].event_time \in Ahead(0)
<1> DEFINE old == sys.events
           new == RebasedEvents(old)
           time(e) == IF e \in Components THEN old[e].event_time - timestamp ELSE old[e].event_time
<1>1. PICK p : Listed(old, p)
  BY DEF IsList
<1>2. /\ old \in EventLists /\ Linked(old, p) /\ Ascending(old, p) /\ Ends(old)
      /\ p \in [Events -> Places] /\ p[SYNFIRST] = 1 /\ p[SYNLAST] = 7
      /\ \A a, b \in Events : p[a] = p[b] => a = b
  BY <1>1 DEF Listed, Linked, Placed
<1>3. new = [e \in Events |-> [old[e] EXCEPT !.event_time = IF e \in Components THEN @ - timestamp ELSE @]]
  BY DEF RebasedEvents
<1>4. \A e \in Events : time(e) \in Int
  BY <1>2 DEF EventLists
<1> HIDE DEF old, new
<1>5. \A e \in Events : /\ new[e] \in [event_time : Int, prev : Links, next : Links]
                        /\ new[e].event_time = time(e) /\ new[e].prev = old[e].prev /\ new[e].next = old[e].next
  BY <1>2, <1>3, <1>4 DEF EventLists
<1>6. new \in EventLists
  BY <1>3, <1>5 DEF EventLists
<1>7. \A c \in Components : time(c) \in Ahead(0)
  <2> SUFFICES ASSUME NEW c \in Components PROVE time(c) \in Ahead(0)
    OBVIOUS
  <2>1. old[c].event_time \in timestamp + 1 .. timestamp + PSX_EVENT_MAXTS
    BY DEF old, Ahead
  <2>2. \A k \in timestamp + 1 .. timestamp + PSX_EVENT_MAXTS : k - timestamp \in 0 + 1 .. 0 + PSX_EVENT_MAXTS
    BY TimesAssumption
  <2> QED BY <2>1, <2>2 DEF Ahead
<1>8. Linked(new, p)
  BY <1>2, <1>5 DEF Linked
<1>9. time(SYNFIRST) = 0 /\ time(SYNLAST) = Never
  BY <1>2, NamesOfEvents DEF Ends
<1> HIDE DEF time
<1>10. Ends(new)
  BY <1>5, <1>9, NamesOfEvents DEF Ends
<1>11. ASSUME NEW a \in Events, NEW b \in Events, p[a] <= p[b] PROVE time(a) <= time(b)
  <2>1. p[a] \in 1 .. 7 /\ p[b] \in 1 .. 7
    BY <1>2 DEF Places
  <2>2. \A k \in Ahead(0) : 0 <= k /\ k <= Never
    BY TimesAssumption DEF Ahead, Never
  <2>3. 0 <= Never /\ Never \in Int
    BY TimesAssumption DEF Never
  <2>4. CASE a \in Components /\ b \in Components
    <3>1. old[a].event_time <= old[b].event_time
      BY <1>2, <1>11 DEF Ascending
    <3>2. old[a].event_time \in Int /\ old[b].event_time \in Int
      BY <1>2 DEF EventLists
    <3>3. \A j, k \in Int : j <= k => j - timestamp <= k - timestamp
      OBVIOUS
    <3>4. time(a) = old[a].event_time - timestamp /\ time(b) = old[b].event_time - timestamp
      BY <2>4 DEF time
    <3> QED BY <3>1, <3>2, <3>3, <3>4
  <2>5. CASE a = SYNFIRST
    BY <1>7, <1>9, <2>2, <2>3, <2>5 DEF Events
  <2>6. CASE b = SYNLAST
    BY <1>7, <1>9, <2>2, <2>3, <2>6 DEF Events
  <2>7. a = SYNLAST => b = SYNLAST
    BY <1>2, <1>11, <2>1, NamesOfEvents
  <2>8. b = SYNFIRST => a = SYNFIRST
    BY <1>2, <1>11, <2>1, NamesOfEvents
  <2> QED BY <2>4, <2>5, <2>6, <2>7, <2>8 DEF Events
<1>12. Ascending(new, p)
  BY <1>5, <1>11 DEF Ascending
<1>13. IsList(new)
  BY <1>6, <1>8, <1>10, <1>12 DEF IsList, Listed
<1>14. \A c \in Components : new[c].event_time \in Ahead(0)
  BY <1>5, <1>7, NamesOfEvents
<1> QED BY <1>13, <1>14 DEF new, old

LEMMA RebaseTSInv == IInv /\ RebaseTS => IInv'
<1> SUFFICES ASSUME IInv, RebaseTS PROVE IInv'
  OBVIOUS
<1> DEFINE events == RebasedEvents(sys.events)
           next == NextTime(events)
<1>1. /\ phase = "rebase" /\ phase' = "between" /\ timestamp' = 0 /\ access' = access /\ ~sys.Running
      /\ sys' = [sys EXCEPT !.events = events, !.lastts = Zero, !.next_event_ts = next]
      /\ sys \in Systems
  BY DEF RebaseTS, IInv
<1>2. IsList(events) /\ \A c \in Components : events[c].event_time \in Ahead(0)
  BY <1>1, RebasedMoves DEF IInv
<1>3. events \in EventLists /\ next \in Int
  BY <1>2, FirstIsLeast DEF IsList, Listed
<1>4. Zero \in [Components -> Nat] /\ \A c \in Components : Zero[c] = 0
  BY DEF Zero
<1> HIDE DEF events, next
<1>5. /\ sys' \in Systems /\ sys'.events = events /\ sys'.lastts = Zero /\ sys'.next_event_ts = next
      /\ sys'.Running = sys.Running
  BY <1>1, <1>3, <1>4 DEF Systems
<1>6. \A b, c \in Components : sys'.lastts[b] <= sys'.events[c].event_time
  BY <1>2, <1>4, <1>5 DEF Ahead
<1>7. timestamp' <= Latest'
  BY <1>1, TimesAssumption DEF Latest
<1>8. next = NextTime(sys'.events)
  BY <1>5 DEF next
<1> QED BY <1>1, <1>2, <1>4, <1>5, <1>6, <1>7, <1>8 DEF IInv, Watched, Phases

LEMMA NextInv == IInv /\ [Loop_Next]_loopVars => IInv'
<1> SUFFICES ASSUME IInv, [Loop_Next]_loopVars PROVE IInv'
  OBVIOUS
<1>1. CASE StartFrame
  BY <1>1, StartFrameInv
<1>2. CASE StateAction
  BY <1>2, StateActionInv
<1>3. CASE PSX_Power
  BY <1>3, PSX_PowerInv
<1>4. CASE \E d \in 1 .. MaxStep : Instruction(d)
  BY <1>4, InstructionInv
<1>5. CASE \E a \in Accesses, d \in 0 .. MaxStep : StartAccess(a, d)
  BY <1>5, StartAccessInv
<1>6. CASE HandleEvent
  BY <1>6, HandleEventInv
<1>7. CASE Access
  BY <1>7, AccessInv
<1>8. CASE LeaveLoop
  BY <1>8, LeaveLoopInv
<1>9. CASE HandlerReturns
  BY <1>9, HandlerReturnsInv
<1>10. CASE UpdateAll
  BY <1>10, UpdateAllInv
<1>11. CASE RebaseTS
  BY <1>11, RebaseTSInv
<1>12. CASE UNCHANGED loopVars
  <2>1. UNCHANGED <<phase, timestamp, access, sys>>
    BY <1>12 DEF loopVars
  <2>2. Latest' = Latest
    BY <2>1 DEF Latest
  <2> QED BY <2>1, <2>2 DEF IInv
<1> QED BY <1>1, <1>2, <1>3, <1>4, <1>5, <1>6, <1>7, <1>8, <1>9, <1>10, <1>11, <1>12 DEF Loop_Next

LEMMA Invariance == Loop_Spec => []IInv
BY InitInv, NextInv, PTL DEF Loop_Spec

------------------------------------------------------------------------------
\* Types; no event leaves the range between the two ends of the list.
THEOREM TypeCorrect == Loop_Spec => []Loop_TypeOK
<1>1. ASSUME IInv PROVE Loop_TypeOK
  <2> DEFINE events == sys.events
  <2>1. PICK p : Listed(events, p)
    BY <1>1 DEF IInv, IsList
  <2>2. /\ events \in EventLists /\ Ascending(events, p) /\ Ends(events)
        /\ p \in [Events -> Places] /\ p[SYNFIRST] = 1 /\ p[SYNLAST] = 7
    BY <2>1 DEF Listed, Linked, Placed
  <2> HIDE DEF events
  <2>3. \A e \in Events : events[e].event_time \in Times
    <3> SUFFICES ASSUME NEW e \in Events PROVE events[e].event_time \in Times
      OBVIOUS
    <3>1. p[SYNFIRST] <= p[e] /\ p[e] <= p[SYNLAST]
      BY <2>2 DEF Places
    <3>2. events[SYNFIRST].event_time <= events[e].event_time /\ events[e].event_time <= events[SYNLAST].event_time
      BY <2>2, <3>1, NamesOfEvents DEF Ascending
    <3>3. events[e].event_time \in Int
      BY <2>2 DEF EventLists
    <3>4. Never \in Int
      BY TimesAssumption DEF Never
    <3> QED BY <2>2, <3>2, <3>3, <3>4 DEF Times, Ends
  <2>4. events \in [Events -> [event_time : Times, prev : Events \cup {"none"}, next : Events \cup {"none"}]]
    BY <2>2, <2>3 DEF EventLists, Links
  <2>5. First(events) \in Events
    BY <1>1, FirstIsLeast DEF IInv, events
  <2>6. NextTime(events) \in Times
    BY <2>3, <2>5 DEF NextTime
  <2>7. 0 \in Times
    BY TimesAssumption DEF Times, Never
  <2>8. sys.next_event_ts \in Times
    BY <1>1, <2>6, <2>7 DEF IInv, Fresh, Phases, events
  <2> QED BY <1>1, <2>4, <2>8 DEF Loop_TypeOK, IInv, Phases, Systems, events
<1> QED BY <1>1, Invariance, PTL

\* Through every nested PSX_SetEventNT, at every frame's end and every reset, the events form
\* one list in the order of their times.
THEOREM ListStaysLinked == Loop_Spec => []WellLinked
<1>1. IInv => WellLinked
  BY ListsAreWellLinked DEF IInv
<1> QED BY <1>1, Invariance, PTL

\* The CPU's copy of the earliest time is never stale: no instruction starts at or after an
\* event or after the end of the frame was asked for; RebaseTS finds every event ahead.
THEOREM NothingIsDue == Loop_Spec => []NothingDueWhileRunning
<1>1. ASSUME IInv PROVE NothingDueWhileRunning
  <2>1. CASE phase = "cpu"
    BY <1>1, <2>1, BeforeEvents DEF NothingDueWhileRunning
  <2>2. CASE phase = "rebase"
    BY <1>1, <2>2 DEF NothingDueWhileRunning, IInv, Ahead
  <2> QED BY <2>1, <2>2 DEF NothingDueWhileRunning
<1> QED BY <1>1, Invariance, PTL

\* Whichever of the ways a component is updated in, it is never taken back in time.
THEOREM ComponentsOnlyAdvance == Loop_Spec => TimeOnlyAdvances
<1> DEFINE Advance == phase # "rebase" => \A c \in Components : sys'.lastts[c] >= sys.lastts[c]
<1>1. ASSUME NEW t \in Nat, Timed(sys, t),
             \A c \in Components : sys'.lastts[c] = sys.lastts[c] \/ sys'.lastts[c] = t
      PROVE  Advance
  BY <1>1 DEF Timed, Systems
<1>2. ASSUME IInv, [Loop_Next]_loopVars PROVE Advance
  <2>1. CASE UNCHANGED sys
    BY <1>2, <2>1 DEF IInv, Systems
  <2>2. CASE StartFrame
    <3>1. sys'.lastts = sys.lastts
      BY <1>2, <2>2 DEF StartFrame, IInv, Systems
    <3> QED BY <1>2, <3>1 DEF IInv, Systems
  <2>3. CASE StateAction \/ PSX_Power
    <3>1. phase = "between" /\ timestamp = 0 /\ IInv'
      BY <1>2, <2>3, NextInv DEF StateAction, PSX_Power, IInv
    <3>2. \A c \in Components : sys.lastts[c] <= 0 /\ sys.lastts[c] \in Nat
      BY <1>2, <3>1 DEF IInv, Systems
    <3>3. \A c \in Components : sys'.lastts[c] \in Nat
      BY <3>1 DEF IInv, Systems
    <3> QED BY <3>2, <3>3
  <2>4. CASE HandleEvent
    BY <1>1, <1>2, <2>4, HandleEventMoves DEF Moves
  <2>5. CASE Access
    <3>1. CASE sys' = sys
      BY <2>1, <3>1
    <3>2. CASE Timed(sys, timestamp') /\ Moves(sys, sys', timestamp')
      BY <1>1, <1>2, <2>5, <3>2, AccessMoves DEF Moves
    <3> QED BY <1>2, <2>5, <3>1, <3>2, AccessMoves
  <2>6. CASE UpdateAll
    BY <1>1, <1>2, <2>6, UpdateAllMoves DEF IInv
  <2>7. CASE RebaseTS
    BY <2>7 DEF RebaseTS
  <2>8. Loop_Next \/ UNCHANGED sys
    BY <1>2 DEF loopVars
  <2> QED BY <2>1, <2>2, <2>3, <2>4, <2>5, <2>6, <2>7, <2>8
      DEF Loop_Next, Instruction, StartAccess, LeaveLoop, HandlerReturns
<1> HIDE DEF Advance
<1>3. Loop_Spec => [][Advance]_loopVars
  BY <1>2, Invariance, PTL DEF Loop_Spec
<1> QED BY <1>3 DEF TimeOnlyAdvances, Advance

\* A turn of the handler's loop puts its event ahead and leaves none behind.
THEOREM TurnsProgress == Loop_Spec => HandlerProgresses
<1> DEFINE Progress == (phase \in {"handler", "access"} /\ phase' = phase) =>
             LET e == First(sys.events)
                 t == sys.events[e].event_time
             IN /\ sys'.events[e].event_time > t
                /\ \A c \in Components : sys'.events[c].event_time >= t
<1>1. ASSUME IInv, Loop_Next PROVE Progress
  <2>1. CASE HandleEvent
    <3> DEFINE e == First(sys.events)
               t == NextTime(sys.events)
    <3>1. /\ e \in Components /\ t \in Nat /\ t = sys.events[e].event_time /\ Timed(sys', t)
          /\ sys'.events[e].event_time \in Ahead(t)
      BY <1>1, <2>1, HandleEventMoves
    <3> HIDE DEF t
    <3>2. sys'.events[e].event_time > t
      BY <3>1, TimesAssumption DEF Ahead
    <3>3. \A c \in Components : sys'.events[c].event_time \in Int /\ t <= sys'.events[c].event_time
      BY <3>1, NamesOfEvents DEF Timed, Systems, EventLists
    <3>4. \A c \in Components : sys'.events[c].event_time >= t
      BY <3>1, <3>3
    <3> QED BY <3>1, <3>2, <3>4
  <2>2. CASE ~HandleEvent
    <3>1. phase \in {"handler", "access"} => phase' # phase
      BY <1>1, <2>2 DEF Loop_Next, StartFrame, StateAction, PSX_Power, Instruction, StartAccess, Access, LeaveLoop,
           HandlerReturns, UpdateAll, RebaseTS
    <3> QED BY <3>1
  <2> QED BY <2>1, <2>2
<1> HIDE DEF Progress
<1>2. Loop_Spec => [][Progress]_loopVars
  BY <1>1, Invariance, PTL DEF Loop_Spec
<1> QED BY <1>2 DEF HandlerProgresses, Progress

------------------------------------------------------------------------------
(* Disk control.                                                            *)

Opened(images) == \A i \in 1..Len(images) : images[i] <= opened
Distinct(images) == \A i, j \in 1..Len(images) : images[i] = images[j] /\ images[i] # NULL => i = j

\* An interface is in the list once.  CalcDiscSCEx has seen every image but those at indices
\* that were added since, and the list runs out under the selection only by its removal.
ListSound ==
  /\ CD_SelectedDisc \in Int /\ CD_TrayOpen \in BOOLEAN
  /\ saved_state \in SUBSET [tray : BOOLEAN, selected : Int]
  /\ cdifs \in Seq(Nat) /\ opened \in Nat
  /\ CD_IsPBP => Len(cdifs) = 1 /\ cdifs[1] = 1
  /\ Opened(cdifs) /\ Distinct(cdifs)
  /\ scex_ids \in Nat /\ scex_ids <= Len(cdifs)
  /\ \A i \in 1..Len(cdifs) : i <= scex_ids => cdifs[i] # NULL
  /\ Contains(cdifs, NULL) \/ scex_ids = Len(cdifs)
  /\ CD_SelectedDisc < disk_get_num_images \/ chosen = Removed
  /\ fault = "none"

\* An open drive is empty, and one that both flags call closed holds what is selected, which
\* is what was chosen unless that is lost.
Here == IF CD_IsPBP THEN 0 ELSE CD_SelectedDisc
DriveFollows ==
  /\ CD_TrayOpen => Cur_CDIF = NULL
  /\ ~CD_TrayOpen /\ ~eject_state /\ CD_SelectedDisc < 0 => Cur_CDIF = NULL
  /\ ~CD_TrayOpen /\ ~eject_state /\ CD_SelectedDisc >= 0 => Here < scex_ids /\ Cur_CDIF = cdifs[Here + 1]
  /\ ~CD_IsPBP => pbp_disc = 0
  /\ ~CD_IsPBP /\ chosen \notin Lost => chosen = DiscAt(CD_SelectedDisc)

Foreseen == fault # "none" /\ (Contains(cdifs, NULL) \/ chosen = Removed)
DiscInv == Foreseen \/ (ListSound /\ DriveFollows)

LEMMA RemovedAt ==
  ASSUME NEW s \in Seq(Nat), NEW i \in 1..Len(s)
  PROVE  /\ RemoveAt(s, i) \in Seq(Nat) /\ Len(RemoveAt(s, i)) = Len(s) - 1
         /\ \A k \in 1..(Len(s) - 1) : RemoveAt(s, i)[k] = IF k < i THEN s[k] ELSE s[k + 1]
<1> DEFINE a == SubSeq(s, 1, i - 1)
           b == SubSeq(s, i + 1, Len(s))
<1>1. a \in Seq(Nat) /\ Len(a) = i - 1 /\ \A k \in 1..(i - 1) : a[k] = s[k]
  <2>1. \A k \in 1..(i - 1) : s[k] \in Nat
    BY ElementOfSeq
  <2> QED BY <2>1, SubSeqProperties
<1>2. b \in Seq(Nat) /\ Len(b) = Len(s) - i /\ \A k \in 1..(Len(s) - i) : b[k] = s[i + k]
  <2>1. \A k \in (i + 1)..Len(s) : s[k] \in Nat
    BY ElementOfSeq
  <2> QED BY <2>1, SubSeqProperties
<1> HIDE DEF a, b
<1>3. RemoveAt(s, i) = a \o b
  BY DEF RemoveAt, a, b
<1>4. /\ a \o b \in Seq(Nat) /\ Len(a \o b) = Len(a) + Len(b)
      /\ \A k \in 1..(Len(a) + Len(b)) : (a \o b)[k] = IF k <= Len(a) THEN a[k] ELSE b[k - Len(a)]
  BY <1>1, <1>2, ConcatProperties
<1>5. ASSUME NEW k \in 1..(Len(s) - 1)
      PROVE  (a \o b)[k] = IF k < i THEN s[k] ELSE s[k + 1]
  <2>1. k \in 1..(Len(a) + Len(b)) /\ (k <= Len(a) <=> k < i)
    <3>1. Len(a) = i - 1 /\ Len(b) = Len(s) - i /\ Len(s) \in Nat
      BY <1>1, <1>2, LenProperties, Zenon
    <3> QED BY <3>1
  <2>2. CASE k < i
    BY <2>1, <2>2, <1>1, <1>4
  <2>3. CASE ~(k < i)
    <3>1. k - Len(a) \in 1..(Len(s) - i) /\ i + (k - Len(a)) = k + 1
      BY <2>3, <1>1
    <3> QED BY <3>1, <2>1, <2>3, <1>2, <1>4
  <2> QED BY <2>2, <2>3
<1>6. Len(a) + Len(b) = Len(s) - 1
  BY <1>1, <1>2
<1> QED BY <1>3, <1>4, <1>5, <1>6, Zenon

LEMMA ShiftsDiffer ==
  ASSUME NEW i \in Int, NEW m \in Int, NEW n \in Int,
         (IF m < i THEN m ELSE m + 1) = (IF n < i THEN n ELSE n + 1)
  PROVE  m = n
OBVIOUS

\* What is left of a list of distinct interfaces without one of them.
LEMMA RemovedDistinct ==
  ASSUME NEW s \in Seq(Nat), Distinct(s), NEW i \in 1..Len(s)
  PROVE  /\ Distinct(RemoveAt(s, i))
         /\ Opened(s) => Opened(RemoveAt(s, i))
<1> DEFINE r == RemoveAt(s, i)
<1>1. /\ Len(r) = Len(s) - 1
      /\ \A k \in 1..(Len(s) - 1) : r[k] = IF k < i THEN s[k] ELSE s[k + 1]
  BY RemovedAt
<1> HIDE DEF r
<1>2. \A k \in 1..(Len(s) - 1) : \E j \in 1..Len(s) : r[k] = s[j] /\ j = (IF k < i THEN k ELSE k + 1)
  BY <1>1
<1>3. Distinct(r)
  <2> SUFFICES ASSUME NEW k \in 1..Len(r), NEW j \in 1..Len(r), r[k] = r[j], r[k] # NULL PROVE k = j
    BY DEF Distinct
  <2>1. k \in 1..(Len(s) - 1) /\ j \in 1..(Len(s) - 1)
    BY <1>1
  <2>2. PICK a \in 1..Len(s) : r[k] = s[a] /\ a = (IF k < i THEN k ELSE k + 1)
    BY <2>1, <1>2, Zenon
  <2>3. PICK b \in 1..Len(s) : r[j] = s[b] /\ b = (IF j < i THEN j ELSE j + 1)
    BY <2>1, <1>2, Zenon
  <2>4. a = b
    BY <2>2, <2>3, Zenon DEF Distinct
  <2>5. i \in Int /\ k \in Int /\ j \in Int
    OBVIOUS
  <2> QED BY <2>2, <2>3, <2>4, <2>5, ShiftsDiffer, Zenon
<1>5. ASSUME Opened(s) PROVE Opened(r)
  <2> SUFFICES ASSUME NEW k \in 1..(Len(s) - 1) PROVE r[k] <= opened
    BY <1>1, Zenon DEF Opened
  <2> QED BY <1>2, <1>5, Zenon DEF Opened
<1> QED BY <1>3, <1>5 DEF r

LEMMA ListFacts ==
  ASSUME ListSound
  PROVE  /\ CD_SelectedDisc \in Int /\ CD_TrayOpen \in BOOLEAN
         /\ saved_state \in SUBSET [tray : BOOLEAN, selected : Int]
         /\ cdifs \in Seq(Nat) /\ opened \in Nat /\ Len(cdifs) \in Nat
         /\ Opened(cdifs) /\ Distinct(cdifs)
         /\ scex_ids \in Nat /\ scex_ids <= Len(cdifs)
         /\ \A i \in 1..Len(cdifs) : i <= scex_ids => cdifs[i] # NULL
         /\ Contains(cdifs, NULL) \/ scex_ids = Len(cdifs)
         /\ CD_SelectedDisc < disk_get_num_images \/ chosen = Removed
         /\ fault = "none"
<1>1. cdifs \in Seq(Nat) => Len(cdifs) \in Nat
  BY LenProperties, Zenon
<1> QED BY <1>1, Zenon DEF ListSound

LEMMA DiscStarts == DiscInit => DiscInv
<1> SUFFICES ASSUME DiscInit PROVE DiscInv
  OBVIOUS
<1> DEFINE n == IF CD_IsPBP THEN 1 ELSE DiscCount
<1>1. n \in Nat \ {0} /\ disk_get_num_images > 0
  <2>1. DiscCount \in Nat \ {0}
    BY DiscControlAssumption DEF DiscControlAssumption
  <2>2. Len(cdifs) = n
    BY <2>1 DEF DiscInit
  <2> QED BY <2>1, <2>2 DEF disk_get_num_images
<1>2. cdifs \in Seq(Nat) /\ Len(cdifs) = n /\ \A i \in 1..n : cdifs[i] = i
  BY <1>1 DEF DiscInit
<1> HIDE DEF n
<1>3. /\ opened = n /\ scex_ids = n /\ saved_state = {} /\ fault = "none"
      /\ eject_state = FALSE /\ CD_TrayOpen = FALSE /\ CD_SelectedDisc = 0
      /\ Cur_CDIF = 1 /\ pbp_disc = 0
  BY <1>2 DEF DiscInit
<1>4. ListSound
  <2>1. Opened(cdifs) /\ Distinct(cdifs)
    BY <1>1, <1>2, <1>3 DEF Opened, Distinct
  <2>2. CD_IsPBP => n = 1
    BY DEF n
  <2>3. saved_state \in SUBSET [tray : BOOLEAN, selected : Int]
    BY <1>3
  <2>4. /\ CD_SelectedDisc \in Int /\ CD_SelectedDisc < disk_get_num_images
        /\ cdifs \in Seq(Nat) /\ opened \in Nat /\ scex_ids = Len(cdifs)
        /\ scex_ids \in Nat /\ scex_ids <= Len(cdifs)
    BY <1>1, <1>2, <1>3
  <2>5. CD_IsPBP => Len(cdifs) = 1 /\ cdifs[1] = 1
    BY <1>1, <1>2, <2>2
  <2>6. CD_TrayOpen \in BOOLEAN /\ fault = "none"
    BY <1>3, Zenon
  <2>7. \A i \in 1..Len(cdifs) : i <= scex_ids => cdifs[i] # NULL
    BY <1>1, <1>2 DEF NULL
  <2> QED BY <2>1, <2>3, <2>4, <2>5, <2>6, <2>7, Zenon DEF ListSound
<1>5. DriveFollows
  <2>1. Here = 0 /\ cdifs[Here + 1] = 1 /\ Here < scex_ids
    BY <1>1, <1>2, <1>3 DEF Here
  <2>2. chosen = DiscAt(CD_SelectedDisc)
    BY <1>3 DEF DiscInit
  <2>3. CD_SelectedDisc < 0 <=> FALSE
    BY <1>3
  <2> QED BY <1>3, <2>1, <2>2, <2>3, Zenon DEF DriveFollows
<1> QED BY <1>4, <1>5, Zenon DEF DiscInv

\* Where the list is as long as CalcDiscSCEx saw it, a fault of SetDisc means that the
\* selection is not in it, and that its image was removed.
LEMMA SetDiscMoves ==
  ASSUME NEW tray \in BOOLEAN, NEW selected \in Int, NEW index \in Int, CDC_SetDisc(tray, selected, index)
  PROVE  \/ /\ fault' = "none" /\ (tray \/ selected < 0) /\ Cur_CDIF' = NULL
         \/ /\ fault' = "none" /\ ~tray /\ selected >= 0
            /\ index < Len(cdifs) /\ index < scex_ids /\ Cur_CDIF' = cdifs[index + 1]
         \/ /\ fault' # "none" /\ ~tray /\ selected >= 0
            /\ ~(index < Len(cdifs) /\ index < scex_ids)
<1>1. selected >= 0 <=> ~(selected < 0)
  OBVIOUS
<1> QED BY <1>1, Zenon DEF CDC_SetDisc

\* What ListSound says of the lists does not depend on the rest.
LEMMA SameLists ==
  ASSUME ListSound, UNCHANGED <<cdifs, opened, scex_ids>>, fault' = "none",
         CD_SelectedDisc' \in Int, CD_SelectedDisc' < disk_get_num_images \/ chosen' = Removed,
         saved_state' \in SUBSET [tray : BOOLEAN, selected : Int], CD_TrayOpen' \in BOOLEAN
  PROVE  ListSound'
<1>1. disk_get_num_images' = disk_get_num_images
  BY Zenon DEF disk_get_num_images
<1>2. Opened(cdifs)' = Opened(cdifs) /\ Distinct(cdifs)' = Distinct(cdifs) /\ Contains(cdifs, NULL)' = Contains(cdifs, NULL)
  BY Zenon DEF Opened, Distinct, Contains, NULL
<1>3. Removed' = Removed /\ NULL' = NULL
  BY DEF Removed, NULL
<1> QED BY <1>1, <1>2, <1>3, Zenon DEF ListSound

LEMMA SameDisc ==
  ASSUME UNCHANGED cdifs, NEW k \in Int PROVE DiscAt(k)' = DiscAt(k)
BY Zenon DEF DiscAt, disk_get_num_images

LEMMA FaultNames == "null dereference" # "none"
OBVIOUS

LEMMA LostKinds == Removed \in Lost /\ Miscounted \in Lost /\ Removed # Miscounted /\ NULL \in Nat
BY DEF Removed, Miscounted, Lost, NULL

LEMMA EjectKeeps ==
  ASSUME NEW ejected \in BOOLEAN, ListSound, DriveFollows, disk_set_eject_state(ejected) PROVE DiscInv'
<1>1. UNCHANGED <<CD_SelectedDisc, cdifs, opened, scex_ids, saved_state, chosen>> /\ eject_state' = ejected
  BY Zenon DEF disk_set_eject_state
<1>2. DiscAt(CD_SelectedDisc)' = DiscAt(CD_SelectedDisc) /\ Here' = Here /\ Lost' = Lost
  BY <1>1, Zenon DEF DiscAt, disk_get_num_images, Here, Lost, Removed, Miscounted
<1>3. CASE ejected /\ CD_TrayOpen
  <2>1. UNCHANGED <<CD_TrayOpen, fault, pbp_disc, Cur_CDIF>>
    BY <1>3, Zenon DEF disk_set_eject_state
  <2>2. ListSound'
    BY <1>1, <2>1, ListFacts, SameLists, Zenon
  <2>3. DriveFollows'
    BY <1>1, <1>2, <1>3, <2>1, Zenon DEF DriveFollows, NULL
  <2> QED BY <2>2, <2>3, Zenon DEF DiscInv
<1>4. CASE ~(ejected /\ CD_TrayOpen) /\ Contains(cdifs, NULL)
  <2>1. fault' = "null dereference"
    BY <1>4, Zenon DEF disk_set_eject_state, CDInsertEject
  <2>2. Contains(cdifs, NULL)'
    BY <1>1, <1>4, Zenon DEF Contains, NULL
  <2> QED BY <2>1, <2>2, FaultNames, Zenon DEF DiscInv, Foreseen
<1>5. CASE ~(ejected /\ CD_TrayOpen) /\ ~Contains(cdifs, NULL)
  <2>1. CDInsertEject
    BY <1>5, Zenon DEF disk_set_eject_state
  <2>2. PICK fails \in BOOLEAN :
          /\ CD_TrayOpen' = (IF fails THEN ~(~CD_TrayOpen) ELSE ~CD_TrayOpen)
          /\ ~CD_IsPBP => pbp_disc' = pbp_disc
          /\ CDC_SetDisc(CD_TrayOpen', CD_SelectedDisc, Here)
    BY <1>5, <2>1, Zenon DEF CDInsertEject, Here
  <2>3. CD_TrayOpen' \in BOOLEAN
    BY <2>2, ListFacts, Zenon
  <2>4. Here \in Int /\ scex_ids = Len(cdifs)
    BY <1>5, ListFacts DEF Here
  <2>5. CASE fault' # "none"
    <3>1. ~(Here < Len(cdifs)) /\ CD_SelectedDisc >= 0
      BY <2>2, <2>3, <2>4, <2>5, SetDiscMoves, ListFacts, Zenon
    <3>2. ~CD_IsPBP
      <4>1. ASSUME CD_IsPBP PROVE FALSE
        <5>1. Len(cdifs) = 1 /\ Here = 0
          BY <4>1, Zenon DEF ListSound, Here
        <5> QED BY <3>1, <5>1
      <4> QED BY <4>1, Zenon
    <3>3. ~(CD_SelectedDisc < disk_get_num_images)
      BY <3>1, <3>2, Zenon DEF Here, disk_get_num_images
    <3>4. chosen' = Removed
      BY <1>1, <3>3, ListFacts, Zenon
    <3> QED BY <2>5, <3>4, Zenon DEF DiscInv, Foreseen, Removed
  <2>6. CASE fault' = "none"
    <3>1. ListSound'
      BY <1>1, <2>3, <2>6, ListFacts, SameLists, Zenon
    <3>2. /\ CD_TrayOpen' \/ CD_SelectedDisc < 0 => Cur_CDIF' = NULL
          /\ ~CD_TrayOpen' /\ CD_SelectedDisc >= 0 => Here < scex_ids /\ Cur_CDIF' = cdifs[Here + 1]
      <4>1. CD_SelectedDisc >= 0 <=> ~(CD_SelectedDisc < 0)
        BY ListFacts
      <4>2. fault' = "none" /\ CD_SelectedDisc \in Int
        BY <2>6, ListFacts, Zenon
      <4> QED BY <2>2, <2>3, <2>4, <4>1, <4>2, SetDiscMoves, Zenon
    <3>3. DriveFollows'
      BY <1>1, <1>2, <2>2, <3>2, Zenon DEF DriveFollows, NULL
    <3> QED BY <3>1, <3>3, Zenon DEF DiscInv
  <2> QED BY <2>5, <2>6, Zenon
<1> QED BY <1>3, <1>4, <1>5, Zenon

LEMMA SelectKeeps ==
  ASSUME NEW index \in Nat, ListSound, DriveFollows, disk_set_image_index(index) PROVE DiscInv'
<1> DEFINE n == disk_get_num_images
           k == IF index > n THEN n ELSE index
<1>1. n \in Nat
  <2>1. DiscCount \in Nat
    BY DiscControlAssumption DEF DiscControlAssumption
  <2> QED BY <2>1, ListFacts, Zenon DEF disk_get_num_images
<1>2. CD_SelectedDisc' = IF CD_TrayOpen THEN (IF k = n THEN -1 ELSE k) ELSE k - 1
  <2> HIDE DEF n
  <2>1. k \in Nat /\ k <= n /\ (k - 1) + 1 = k /\ k % (n + 1) = k
    BY <1>1
  <2>2. CD_SelectedDisc' = CDSelect(k - 1)
    BY Zenon DEF disk_set_image_index, Decremented, n
  <2> HIDE DEF k
  <2> QED BY <2>1, <2>2, Zenon DEF CDSelect, n
<1>3. /\ UNCHANGED <<eject_state, CD_TrayOpen, cdifs, opened, scex_ids, pbp_disc, Cur_CDIF, saved_state, fault>>
      /\ eject_state
  BY Zenon DEF disk_set_image_index
<1>4. CD_SelectedDisc' \in Int /\ CD_SelectedDisc' < n
  <2> HIDE DEF n
  <2> QED BY <1>1, <1>2
<1>5. ListSound'
  BY <1>3, <1>4, ListFacts, SameLists, Zenon
<1>6. CD_TrayOpen => chosen' = DiscAt(CD_SelectedDisc)'
  <2> SUFFICES ASSUME CD_TrayOpen PROVE chosen' = DiscAt(CD_SelectedDisc)'
    OBVIOUS
  <2>1. DiscAt(index) = DiscAt(CD_SelectedDisc')
    <3>1. index \in 0..n-1 => CD_SelectedDisc' = index
      <4> HIDE DEF n
      <4> QED BY <1>1, <1>2
    <3>2. index \notin 0..n-1 => CD_SelectedDisc' \notin 0..n-1
      <4> HIDE DEF n
      <4> QED BY <1>1, <1>2
    <3> QED BY <3>1, <3>2, Zenon DEF DiscAt
  <2>2. chosen' = DiscAt(index)
    BY Zenon DEF disk_set_image_index
  <2>3. DiscAt(CD_SelectedDisc)' = DiscAt(CD_SelectedDisc')
    BY <1>3, Zenon DEF DiscAt, disk_get_num_images
  <2> QED BY <2>1, <2>2, <2>3, Zenon
<1>7. ~CD_TrayOpen => chosen' \in Lost'
  BY LostKinds, Zenon DEF disk_set_image_index, Lost, Removed, Miscounted
<1>8. DriveFollows'
  BY <1>3, <1>6, <1>7, Zenon DEF DriveFollows, NULL
<1> QED BY <1>5, <1>8, Zenon DEF DiscInv

\* CalcDiscSCEx looks into every image, and stumbles over one that is not there.
LEMMA CalcMoves ==
  ASSUME CalcDiscSCEx(cdifs') PROVE
    \/ fault' # "none" /\ Contains(cdifs, NULL)'
    \/ fault' = "none" /\ ~Contains(cdifs, NULL)' /\ scex_ids' = Len(cdifs)'
<1>1. Contains(cdifs, NULL)' <=> Contains(cdifs', NULL)
  BY Zenon DEF Contains, NULL
<1>2. CASE Contains(cdifs', NULL)
  <2>1. fault' = "null dereference"
    BY <1>2, Zenon DEF CalcDiscSCEx
  <2> QED BY <1>1, <1>2, <2>1, FaultNames, Zenon
<1>3. CASE ~Contains(cdifs', NULL)
  BY <1>1, <1>3, Zenon DEF CalcDiscSCEx
<1> QED BY <1>2, <1>3, Zenon

\* Two indices name two discs, if there are no more than one without an image.
LEMMA DiscsDiffer ==
  ASSUME ListSound, ~CD_IsPBP, NEW i \in Int, NEW j \in Int, i # j, j \in 0..Len(cdifs) - 1,
         \A k \in 1..Len(cdifs) : k # j + 1 => cdifs[k] # NULL
  PROVE  DiscAt(i) # DiscAt(j)
<1>1. disk_get_num_images = Len(cdifs) /\ Len(cdifs) \in Nat
  BY ListFacts, Zenon DEF disk_get_num_images
<1>2. DiscAt(j) = <<cdifs[j + 1], 0>>
  BY <1>1, Zenon DEF DiscAt
<1>3. CASE i \in 0..Len(cdifs) - 1
  <2>1. DiscAt(i) = <<cdifs[i + 1], 0>>
    BY <1>1, <1>3, Zenon DEF DiscAt
  <2>2. i + 1 \in 1..Len(cdifs) /\ j + 1 \in 1..Len(cdifs) /\ i + 1 # j + 1
    BY <1>1, <1>3
  <2>3. cdifs[i + 1] # cdifs[j + 1]
    BY <2>2, ListFacts, Zenon DEF Distinct
  <2> QED BY <1>2, <2>1, <2>3
<1>4. CASE i \notin 0..Len(cdifs) - 1
  <2>1. DiscAt(i) = <<>>
    BY <1>1, <1>4, Zenon DEF DiscAt
  <2> QED BY <1>2, <2>1
<1> QED BY <1>3, <1>4, Zenon

\* The image at one index is another interface, which was not in the list before.
LEMMA ReplaceKeeps ==
  ASSUME NEW index \in Nat, ListSound, DriveFollows, disk_replace_image_index(index) PROVE DiscInv'
<1>1. ~CD_IsPBP /\ eject_state /\ index < Len(cdifs)
  BY Zenon DEF disk_replace_image_index, MayReplace, MayFill
<1>2. /\ opened' = opened + 1 /\ cdifs' = [cdifs EXCEPT ![index + 1] = opened + 1]
      /\ CalcDiscSCEx(cdifs')
      /\ UNCHANGED <<eject_state, CD_TrayOpen, CD_SelectedDisc, pbp_disc, Cur_CDIF, saved_state>>
      /\ chosen' = IF chosen = DiscAt(index) THEN DiscAt(index)' ELSE chosen
  BY Zenon DEF disk_replace_image_index
<1>3. cdifs \in Seq(Nat) /\ opened \in Nat /\ Len(cdifs) \in Nat /\ CD_SelectedDisc \in Int
  BY ListFacts, Zenon
<1>4. /\ cdifs' \in Seq(Nat) /\ Len(cdifs') = Len(cdifs)
      /\ \A i \in 1..Len(cdifs) : cdifs'[i] = IF i = index + 1 THEN opened + 1 ELSE cdifs[i]
  <2>1. index + 1 \in 1..Len(cdifs) /\ opened + 1 \in Nat
    BY <1>1, <1>3
  <2> QED BY <1>2, <1>3, <2>1, ExceptSeq
<1>5. CASE fault' # "none"
  BY <1>2, <1>5, CalcMoves, Zenon DEF DiscInv, Foreseen
<1>6. CASE fault' = "none"
  <2>1. ~Contains(cdifs, NULL)' /\ scex_ids' = Len(cdifs)'
    BY <1>2, <1>6, CalcMoves, Zenon
  <2>2. \A i \in 1..Len(cdifs) : cdifs'[i] # NULL
    BY <1>4, <2>1, Zenon DEF Contains, NULL
  <2>3. \A i \in 1..Len(cdifs) : i # index + 1 => cdifs[i] # NULL
    BY <1>4, <2>2, Zenon
  <2>4. Opened(cdifs)' /\ Distinct(cdifs)'
    <3>1. \A i \in 1..Len(cdifs) : cdifs[i] \in Nat /\ cdifs[i] <= opened
      BY <1>3, ListFacts, ElementOfSeq DEF Opened
    <3>2. \A i, j \in 1..Len(cdifs) : cdifs[i] = cdifs[j] /\ cdifs[i] # NULL => i = j
      BY ListFacts, Zenon DEF Distinct
    <3>3. ASSUME NEW i \in 1..Len(cdifs) PROVE cdifs'[i] <= opened'
      <4>1. \A k \in Nat : k <= opened => k <= opened + 1
        BY <1>3
      <4>2. opened + 1 <= opened + 1
        BY <1>3
      <4> QED BY <1>2, <1>4, <3>1, <4>1, <4>2, Zenon
    <3>4. ASSUME NEW i \in 1..Len(cdifs), NEW j \in 1..Len(cdifs), cdifs'[i] = cdifs'[j] PROVE i = j
      <4>1. \A k \in 1..Len(cdifs) : cdifs[k] # opened + 1
        <5>1. \A m, l \in Nat : m <= l => m # l + 1
          OBVIOUS
        <5> QED BY <1>3, <3>1, <5>1, Zenon
      <4>2. CASE i = index + 1 \/ j = index + 1
        BY <1>4, <3>4, <4>1, <4>2, Zenon
      <4>3. CASE i # index + 1 /\ j # index + 1
        BY <1>4, <2>3, <3>2, <3>4, <4>3, Zenon
      <4> QED BY <4>2, <4>3, Zenon
    <3> QED BY <1>4, <3>3, <3>4, Zenon DEF Opened, Distinct
  <2>5. disk_get_num_images' = disk_get_num_images
    BY <1>4, Zenon DEF disk_get_num_images
  <2>6. chosen = Removed => chosen' = Removed'
    <3>1. Removed # DiscAt(index)
      <4>1. DiscAt(index) = <<cdifs[index + 1], 0>>
        BY <1>1, <1>3 DEF DiscAt, disk_get_num_images
      <4> QED BY <4>1 DEF Removed
    <3> QED BY <1>2, <3>1, Zenon DEF Removed
  <2>7. ListSound'
    <3>1. CD_SelectedDisc' \in Int /\ (CD_SelectedDisc' < disk_get_num_images' \/ chosen' = Removed')
      BY <1>2, <2>5, <2>6, ListFacts, Zenon
    <3>2. opened' \in Nat
      BY <1>2, <1>3
    <3>3. saved_state' \in SUBSET [tray : BOOLEAN, selected : Int] /\ CD_TrayOpen' \in BOOLEAN
      BY <1>2, ListFacts, Zenon
    <3>4. scex_ids' \in Nat /\ scex_ids' <= Len(cdifs)' /\ scex_ids' = Len(cdifs)'
      BY <1>3, <1>4, <2>1
    <3>5. \A i \in 1..Len(cdifs') : cdifs'[i] # NULL'
      BY <1>4, <2>2, Zenon DEF NULL
    <3> QED BY <1>1, <1>4, <1>6, <2>4, <3>1, <3>2, <3>3, <3>4, <3>5, Zenon DEF ListSound
  <2>8. ASSUME chosen' \notin Lost' PROVE chosen' = DiscAt(CD_SelectedDisc)'
    <3> DEFINE sel == CD_SelectedDisc
    <3>1. sel' = sel
      BY <1>2, Zenon
    <3>2. CASE sel = index
      <4>1. CASE chosen = DiscAt(index)
        <5>1. DiscAt(CD_SelectedDisc)' = DiscAt(index)'
          BY <3>1, <3>2, Zenon DEF DiscAt, disk_get_num_images
        <5> QED BY <1>2, <4>1, <5>1, Zenon
      <4>2. CASE chosen # DiscAt(index)
        BY <1>1, <1>2, <2>8, <3>2, <4>2, Zenon DEF DriveFollows, Lost, Removed, Miscounted
      <4> QED BY <4>1, <4>2, Zenon
    <3>3. CASE sel # index
      <4>1. DiscAt(sel) # DiscAt(index)
        <5>1. sel \in Int /\ index \in Int /\ index \in 0..Len(cdifs) - 1
          BY <1>1, <1>3
        <5> QED BY <1>1, <2>3, <3>3, <5>1, DiscsDiffer, Zenon
      <4>2. chosen \notin Lost => chosen = DiscAt(sel)
        BY <1>1, Zenon DEF DriveFollows
      <4>3. chosen \notin Lost
        <5>1. ASSUME chosen \in Lost PROVE FALSE
          <6>1. chosen # DiscAt(index)
            <7>1. DiscAt(index) = <<cdifs[index + 1], 0>>
              BY <1>1, <1>3 DEF DiscAt, disk_get_num_images
            <7> QED BY <5>1, <7>1 DEF Lost, Removed, Miscounted
          <6> QED BY <1>2, <2>8, <5>1, <6>1, Zenon DEF Lost, Removed, Miscounted
        <5> QED BY <5>1, Zenon
      <4>4. DiscAt(sel)' = DiscAt(sel)
        <5>1. sel \in 0..disk_get_num_images - 1 => cdifs'[sel + 1] = cdifs[sel + 1]
          BY <1>1, <1>3, <1>4, <3>3 DEF disk_get_num_images
        <5> QED BY <1>1, <2>5, <3>1, <5>1, Zenon DEF DiscAt
      <4> QED BY <1>2, <3>1, <4>1, <4>2, <4>3, <4>4, Zenon
    <3> QED BY <3>2, <3>3, Zenon
  <2>9. DriveFollows'
    BY <1>1, <1>2, <2>8, Zenon DEF DriveFollows, NULL
  <2> QED BY <2>7, <2>9, Zenon DEF DiscInv
<1> QED BY <1>5, <1>6, Zenon

\* An image is taken out of the list: the selection follows its disc.
LEMMA RemoveKeeps ==
  ASSUME NEW index \in Nat, ListSound, DriveFollows, remove_image_index(index) PROVE DiscInv'
<1>1. ~CD_IsPBP /\ eject_state /\ index < Len(cdifs)
  BY Zenon DEF remove_image_index, MayReplace, MayFill
<1>2. /\ cdifs' = RemoveAt(cdifs, index + 1) /\ CalcDiscSCEx(cdifs')
      /\ CD_SelectedDisc' = IF CD_SelectedDisc < 0 \/ index < CD_SelectedDisc
                              THEN CD_SelectedDisc - 1 ELSE CD_SelectedDisc
      /\ chosen' = IF CD_SelectedDisc = index THEN Removed ELSE chosen
      /\ UNCHANGED <<eject_state, CD_TrayOpen, opened, pbp_disc, Cur_CDIF, saved_state>>
  BY Zenon DEF remove_image_index
<1>3. /\ cdifs \in Seq(Nat) /\ opened \in Nat /\ Len(cdifs) \in Nat /\ CD_SelectedDisc \in Int
      /\ CD_SelectedDisc < Len(cdifs) \/ chosen = Removed
  BY <1>1, ListFacts, Zenon DEF disk_get_num_images
<1>4. index + 1 \in 1..Len(cdifs)
  BY <1>1, <1>3
<1>5. /\ cdifs' \in Seq(Nat) /\ Len(cdifs') = Len(cdifs) - 1
      /\ \A k \in 1..(Len(cdifs) - 1) : cdifs'[k] = IF k < index + 1 THEN cdifs[k] ELSE cdifs[k + 1]
  BY <1>2, <1>3, <1>4, RemovedAt, Zenon
<1>6. CASE fault' # "none"
  BY <1>2, <1>6, CalcMoves, Zenon DEF DiscInv, Foreseen
<1>7. CASE fault' = "none"
  <2>1. ~Contains(cdifs, NULL)' /\ scex_ids' = Len(cdifs)'
    BY <1>2, <1>7, CalcMoves, Zenon
  <2>2. \A i \in 1..Len(cdifs') : cdifs'[i] # NULL
    BY <2>1, Zenon DEF Contains, NULL
  <2>3. Opened(cdifs)' /\ Distinct(cdifs)'
    <3>1. Distinct(cdifs') /\ Opened(cdifs')
      BY <1>2, <1>3, <1>4, ListFacts, RemovedDistinct, Zenon
    <3> QED BY <1>2, <3>1, Zenon DEF Opened, Distinct, NULL
  <2>4. disk_get_num_images' = Len(cdifs')
    BY <1>1, Zenon DEF disk_get_num_images
  <2>5. CD_SelectedDisc' \in Int /\ (CD_SelectedDisc' < Len(cdifs') \/ chosen' = Removed)
    <3>1. CASE CD_SelectedDisc = index
      BY <1>2, <1>3, <3>1
    <3>2. CASE CD_SelectedDisc # index /\ chosen = Removed
      BY <1>2, <1>3, <3>2
    <3>3. CASE CD_SelectedDisc # index /\ chosen # Removed
      BY <1>1, <1>2, <1>3, <1>5, <3>3
    <3> QED BY <3>1, <3>2, <3>3, Zenon
  <2>6. ListSound'
    <3>1. opened' \in Nat /\ saved_state' \in SUBSET [tray : BOOLEAN, selected : Int] /\ CD_TrayOpen' \in BOOLEAN
      BY <1>2, ListFacts, Zenon
    <3>2. scex_ids' \in Nat /\ scex_ids' <= Len(cdifs)' /\ scex_ids' = Len(cdifs)'
      BY <1>3, <1>4, <1>5, <2>1
    <3>3. \A i \in 1..Len(cdifs') : cdifs'[i] # NULL'
      BY <2>2, Zenon DEF NULL
    <3>4. CD_SelectedDisc' \in Int /\ (CD_SelectedDisc' < disk_get_num_images' \/ chosen' = Removed')
      BY <2>4, <2>5, Zenon DEF Removed
    <3> QED BY <1>1, <1>5, <1>7, <2>3, <3>1, <3>2, <3>3, <3>4, Zenon DEF ListSound
  <2>7. ASSUME chosen' \notin Lost' PROVE chosen' = DiscAt(CD_SelectedDisc)'
    <3> DEFINE sel == CD_SelectedDisc
    <3>1. sel # index /\ chosen \notin Lost /\ chosen' = chosen
      BY <1>2, <2>7, LostKinds, Zenon DEF Lost, Removed, Miscounted
    <3>2. chosen = DiscAt(sel) /\ sel < Len(cdifs)
      BY <1>1, <1>3, <3>1, LostKinds, Zenon DEF DriveFollows
    <3>3. DiscAt(sel) = IF sel \in 0..Len(cdifs) - 1 THEN <<cdifs[sel + 1], 0>> ELSE <<>>
      BY <1>1, Zenon DEF DiscAt, disk_get_num_images
    <3>4. DiscAt(sel)' = IF sel' \in 0..Len(cdifs') - 1 THEN <<cdifs'[sel' + 1], 0>> ELSE <<>>
      BY <1>1, Zenon DEF DiscAt, disk_get_num_images
    <3>5. sel \in 0..Len(cdifs) - 1 <=> sel' \in 0..Len(cdifs') - 1
      <4>1. /\ sel \in Int /\ Len(cdifs) \in Nat /\ Len(cdifs') = Len(cdifs) - 1
            /\ sel' = IF sel < 0 \/ index < sel THEN sel - 1 ELSE sel
        BY <1>2, <1>3, <1>5, Zenon
      <4> DEFINE l == Len(cdifs)
                 m == Len(cdifs')
                 next == sel'
      <4>2. l \in Nat /\ m = l - 1 /\ next = (IF sel < 0 \/ index < sel THEN sel - 1 ELSE sel) /\ sel \in Int
        BY <4>1, Zenon
      <4>3. index < l /\ sel < l /\ sel # index
        BY <1>1, <3>1, <3>2, Zenon
      <4> HIDE DEF l, m, next, sel
      <4>4. sel \in 0..l - 1 <=> next \in 0..m - 1
        BY <4>2, <4>3
      <4> QED BY <4>4, Zenon DEF l, m, next, sel
    <3>6. sel \in 0..Len(cdifs) - 1 => cdifs'[sel' + 1] = cdifs[sel + 1]
      <4>1. CASE sel \in 0..Len(cdifs) - 1 /\ index < sel
        <5>1. sel' = sel - 1
          BY <1>2, <4>1, Zenon
        <5>2. sel \in 1..Len(cdifs) - 1 /\ ~(sel < index + 1) /\ sel' + 1 = sel
          BY <1>3, <4>1, <5>1
        <5> HIDE DEF sel
        <5> QED BY <1>3, <1>5, <5>2
      <4>2. CASE sel \in 0..Len(cdifs) - 1 /\ sel < index
        <5>1. sel' = sel
          BY <1>2, <1>3, <4>2
        <5>2. sel + 1 \in 1..Len(cdifs) - 1 /\ sel + 1 < index + 1
          BY <1>3, <1>4, <4>2
        <5> HIDE DEF sel
        <5> QED BY <1>5, <5>1, <5>2
      <4>3. sel \in 0..Len(cdifs) - 1 => index < sel \/ sel < index
        <5>1. \A j, k \in Int : j # k => j < k \/ k < j
          OBVIOUS
        <5>2. index \in Int
          OBVIOUS
        <5> QED BY <1>3, <3>1, <5>1, <5>2, Zenon
      <4> QED BY <4>1, <4>2, <4>3, Zenon
    <3>7. CASE sel \in 0..Len(cdifs) - 1
      <4>1. DiscAt(sel) = <<cdifs[sel + 1], 0>>
        BY <3>3, <3>7, Zenon
      <4>2. DiscAt(sel)' = <<cdifs[sel + 1], 0>>
        BY <3>4, <3>5, <3>6, <3>7, Zenon
      <4> QED BY <3>1, <3>2, <4>1, <4>2, Zenon
    <3>8. CASE sel \notin 0..Len(cdifs) - 1
      <4>1. DiscAt(sel) = <<>>
        BY <3>3, <3>8, Zenon
      <4>2. DiscAt(sel)' = <<>>
        BY <3>4, <3>5, <3>8, Zenon
      <4> QED BY <3>1, <3>2, <4>1, <4>2, Zenon
    <3> QED BY <3>7, <3>8, Zenon
  <2>8. DriveFollows'
    BY <1>1, <1>2, <2>7, Zenon DEF DriveFollows, NULL
  <2> QED BY <2>6, <2>8, Zenon DEF DiscInv
<1> QED BY <1>6, <1>7, Zenon

\* The index that is added has no interface yet, and is not the selected one.
LEMMA AddKeeps ==
  ASSUME ListSound, DriveFollows, disk_add_image_index PROVE DiscInv'
<1>1. /\ ~CD_IsPBP /\ cdifs' = Append(cdifs, NULL)
      /\ UNCHANGED <<eject_state, CD_TrayOpen, CD_SelectedDisc, opened, scex_ids, pbp_disc, Cur_CDIF, saved_state, chosen, fault>>
  BY Zenon DEF disk_add_image_index
<1>2. /\ cdifs \in Seq(Nat) /\ opened \in Nat /\ Len(cdifs) \in Nat /\ CD_SelectedDisc \in Int
      /\ CD_SelectedDisc < Len(cdifs) \/ chosen = Removed
  BY <1>1, ListFacts, Zenon DEF disk_get_num_images
<1>3. /\ cdifs' \in Seq(Nat) /\ Len(cdifs') = Len(cdifs) + 1 /\ cdifs'[Len(cdifs) + 1] = NULL
      /\ \A i \in 1..Len(cdifs) : cdifs'[i] = cdifs[i]
  <2>1. NULL \in Nat
    BY DEF NULL
  <2> HIDE DEF NULL
  <2> QED BY <1>1, <1>2, <2>1, AppendProperties
<1>4. Opened(cdifs)' /\ Distinct(cdifs)' /\ Contains(cdifs, NULL)'
  <2>1. \A i \in 1..Len(cdifs) : cdifs[i] <= opened
    BY ListFacts, Zenon DEF Opened
  <2>2. \A i, j \in 1..Len(cdifs) : cdifs[i] = cdifs[j] /\ cdifs[i] # NULL => i = j
    BY ListFacts, Zenon DEF Distinct
  <2>3. \A i \in 1..Len(cdifs') : i \in 1..Len(cdifs) \/ i = Len(cdifs) + 1
    BY <1>2, <1>3
  <2>4. Len(cdifs) + 1 \in 1..Len(cdifs')
    BY <1>2, <1>3
  <2>5. Opened(cdifs)'
    <3>1. NULL <= opened
      BY <1>2 DEF NULL
    <3> QED BY <1>1, <1>3, <2>1, <2>3, <3>1, Zenon DEF Opened
  <2>6. Distinct(cdifs)'
    <3> SUFFICES ASSUME NEW i \in 1..Len(cdifs'), NEW j \in 1..Len(cdifs'),
                        cdifs'[i] = cdifs'[j], cdifs'[i] # NULL
                 PROVE  i = j
      BY Zenon DEF Distinct, NULL
    <3>1. i \in 1..Len(cdifs) /\ j \in 1..Len(cdifs)
      BY <1>3, <2>3, Zenon
    <3> QED BY <1>3, <2>2, <3>1, Zenon
  <2>7. Contains(cdifs, NULL)'
    BY <1>3, <2>4, Zenon DEF Contains, NULL
  <2> QED BY <2>5, <2>6, <2>7, Zenon
<1>5. disk_get_num_images' = Len(cdifs') /\ (CD_SelectedDisc' < Len(cdifs') \/ chosen' = Removed')
  <2>1. CD_SelectedDisc < Len(cdifs') \/ chosen = Removed
    BY <1>2, <1>3
  <2> QED BY <1>1, <2>1, Zenon DEF disk_get_num_images, Removed
<1>6. ListSound'
  <2>1. /\ fault' = "none" /\ opened' \in Nat /\ saved_state' \in SUBSET [tray : BOOLEAN, selected : Int]
        /\ CD_TrayOpen' \in BOOLEAN /\ CD_SelectedDisc' \in Int
    BY <1>1, ListFacts, Zenon
  <2>2. scex_ids' \in Nat /\ scex_ids' <= Len(cdifs')
    BY <1>1, <1>2, <1>3, ListFacts
  <2>3. \A i \in 1..Len(cdifs') : i <= scex_ids' => cdifs'[i] # NULL'
    <3> SUFFICES ASSUME NEW i \in 1..Len(cdifs'), i <= scex_ids PROVE cdifs'[i] # NULL
      BY <1>1, Zenon DEF NULL
    <3>1. i \in 1..Len(cdifs)
      BY <1>2, ListFacts
    <3> QED BY <1>3, <3>1, ListFacts, Zenon
  <2> QED BY <1>1, <1>3, <1>4, <1>5, <2>1, <2>2, <2>3, Zenon DEF ListSound
<1>7. DriveFollows'
  <2>1. ASSUME chosen' \notin Lost' PROVE chosen' = DiscAt(CD_SelectedDisc)'
    <3> DEFINE sel == CD_SelectedDisc
    <3>1. chosen = DiscAt(sel) /\ sel < Len(cdifs)
      BY <1>1, <1>2, <2>1, LostKinds, Zenon DEF DriveFollows, Lost, Removed, Miscounted
    <3>2. DiscAt(sel) = IF sel \in 0..Len(cdifs) - 1 THEN <<cdifs[sel + 1], 0>> ELSE <<>>
      BY <1>1, Zenon DEF DiscAt, disk_get_num_images
    <3>3. DiscAt(sel)' = IF sel \in 0..Len(cdifs') - 1 THEN <<cdifs'[sel + 1], 0>> ELSE <<>>
      BY <1>1, Zenon DEF DiscAt, disk_get_num_images
    <3>4. sel \in 0..Len(cdifs) - 1 <=> sel \in 0..Len(cdifs') - 1
      BY <1>2, <1>3, <3>1
    <3>5. sel \in 0..Len(cdifs) - 1 => cdifs'[sel + 1] = cdifs[sel + 1]
      <4>1. sel \in 0..Len(cdifs) - 1 => sel + 1 \in 1..Len(cdifs)
        BY <1>2
      <4> QED BY <1>3, <4>1, Zenon
    <3>6. CASE sel \in 0..Len(cdifs) - 1
      <4>1. DiscAt(sel) = <<cdifs[sel + 1], 0>>
        BY <3>2, <3>6, Zenon
      <4> QED BY <1>1, <3>1, <3>3, <3>4, <3>5, <3>6, <4>1, Zenon
    <3>7. CASE sel \notin 0..Len(cdifs) - 1
      <4>1. DiscAt(sel) = <<>>
        BY <3>2, <3>7, Zenon
      <4> QED BY <1>1, <3>1, <3>3, <3>4, <3>7, <4>1, Zenon
    <3> QED BY <3>6, <3>7, Zenon
  <2>2. CD_SelectedDisc >= 0 /\ Here < scex_ids => cdifs'[Here + 1] = cdifs[Here + 1] /\ Here' = Here
    <3>1. Here' = Here
      BY <1>1, Zenon DEF Here
    <3>2. ASSUME CD_SelectedDisc >= 0, Here < scex_ids PROVE Here + 1 \in 1..Len(cdifs)
      BY <1>1, <1>2, <3>2, ListFacts DEF Here
    <3> QED BY <1>3, <3>1, <3>2, Zenon
  <2> QED BY <1>1, <2>1, <2>2, Zenon DEF DriveFollows, NULL
<1> QED BY <1>6, <1>7, Zenon DEF DiscInv

LEMMA SaveKeeps ==
  ASSUME ListSound, DriveFollows, Save PROVE DiscInv'
<1>1. UNCHANGED <<eject_state, CD_TrayOpen, CD_SelectedDisc, cdifs, opened, scex_ids, pbp_disc, Cur_CDIF, chosen, fault>>
  BY Zenon DEF Save
<1>2. saved_state' \in SUBSET [tray : BOOLEAN, selected : Int]
  BY ListFacts DEF Save
<1>3. ListSound'
  BY <1>1, <1>2, ListFacts, SameLists, Zenon
<1>4. DriveFollows'
  <2>1. DiscAt(CD_SelectedDisc)' = DiscAt(CD_SelectedDisc)
    BY <1>1, Zenon DEF DiscAt, disk_get_num_images
  <2> QED BY <1>1, <2>1, Zenon DEF DriveFollows, NULL, Lost, Removed, Miscounted, Here
<1> QED BY <1>3, <1>4, Zenon DEF DiscInv

\* A selection that is not in the list any more is none.
LEMMA LoadKeeps ==
  ASSUME ListSound, DriveFollows, Load PROVE DiscInv'
<1>1. PICK s \in saved_state :
      /\ CD_TrayOpen' = s.tray /\ CD_SelectedDisc' = Restored(s.selected)
      /\ CDC_SetDisc(s.tray, CD_SelectedDisc', CD_SelectedDisc')
      /\ chosen' = DiscAt(CD_SelectedDisc')
      /\ UNCHANGED <<eject_state, cdifs, opened, scex_ids, pbp_disc, saved_state>>
  BY Zenon DEF Load
<1>2. s.tray \in BOOLEAN /\ s.selected \in Int /\ Len(cdifs) \in Nat
  <2>1. s \in [tray : BOOLEAN, selected : Int]
    BY ListFacts, Zenon
  <2> QED BY <2>1, ListFacts
<1>3. CD_SelectedDisc' \in Int /\ CD_SelectedDisc' < Len(cdifs)
  <2>1. CD_SelectedDisc' = IF s.selected >= Len(cdifs) THEN -1 ELSE s.selected
    BY <1>1, Zenon DEF Restored
  <2> QED BY <1>2, <2>1
<1>4. CD_SelectedDisc' < disk_get_num_images
  <2>1. CASE CD_IsPBP
    <3>1. Len(cdifs) = 1
      BY <2>1, Zenon DEF ListSound
    <3>2. DiscCount \in Nat /\ DiscCount > 0
      BY DiscControlAssumption DEF DiscControlAssumption
    <3>3. CD_SelectedDisc' < DiscCount
      BY <1>3, <3>1, <3>2
    <3> QED BY <2>1, <3>3, Zenon DEF disk_get_num_images
  <2>2. CASE ~CD_IsPBP
    BY <2>2, <1>3, Zenon DEF disk_get_num_images
  <2> QED BY <2>1, <2>2, Zenon
<1>5. CASE fault' # "none"
  <2>1. ~(CD_SelectedDisc' < scex_ids)
    BY <1>1, <1>2, <1>3, <1>5, SetDiscMoves, Zenon
  <2>2. scex_ids # Len(cdifs)
    BY <1>3, <2>1
  <2>3. Contains(cdifs, NULL)'
    BY <1>1, <2>2, ListFacts, Zenon DEF Contains, NULL
  <2> QED BY <1>5, <2>3, Zenon DEF DiscInv, Foreseen
<1>6. CASE fault' = "none"
  <2>1. ListSound'
    BY <1>1, <1>2, <1>3, <1>4, <1>6, ListFacts, SameLists, Zenon
  <2>2. /\ CD_TrayOpen' \/ CD_SelectedDisc' < 0 => Cur_CDIF' = NULL
        /\ ~CD_TrayOpen' /\ CD_SelectedDisc' >= 0 =>
             CD_SelectedDisc' < scex_ids /\ Cur_CDIF' = cdifs[CD_SelectedDisc' + 1]
    <3>1. CD_SelectedDisc' >= 0 <=> ~(CD_SelectedDisc' < 0)
      BY <1>3
    <3> QED BY <1>1, <1>2, <1>3, <1>6, <3>1, SetDiscMoves, Zenon
  <2>3. CD_SelectedDisc' >= 0 => Here' = CD_SelectedDisc'
    <3>1. CASE CD_IsPBP
      <4>1. Len(cdifs) = 1
        BY <3>1, Zenon DEF ListSound
      <4>2. CD_SelectedDisc' >= 0 => CD_SelectedDisc' = 0
        BY <1>3, <4>1
      <4> QED BY <3>1, <4>2, Zenon DEF Here
    <3>2. CASE ~CD_IsPBP
      BY <3>2, Zenon DEF Here
    <3> QED BY <3>1, <3>2, Zenon
  <2>4. chosen' = DiscAt(CD_SelectedDisc)'
    <3>1. DiscAt(CD_SelectedDisc)' = DiscAt(CD_SelectedDisc')
      BY <1>1, Zenon DEF DiscAt, disk_get_num_images
    <3> QED BY <1>1, <3>1, Zenon
  <2>5. DriveFollows'
    BY <1>1, <2>2, <2>3, <2>4, Zenon DEF DriveFollows, NULL
  <2> QED BY <2>1, <2>5, Zenon DEF DiscInv
<1> QED BY <1>5, <1>6, Zenon

LEMMA StillKeeps == ASSUME DiscInv, UNCHANGED discVars PROVE DiscInv'
<1>1. UNCHANGED <<eject_state, CD_TrayOpen, CD_SelectedDisc, cdifs, opened, scex_ids, pbp_disc, Cur_CDIF, saved_state, chosen, fault>>
  BY Zenon DEF discVars
<1>2. ListSound => ListSound'
  BY <1>1, ListFacts, SameLists, Zenon
<1>3. /\ DiscAt(CD_SelectedDisc)' = DiscAt(CD_SelectedDisc) /\ Contains(cdifs, NULL)' = Contains(cdifs, NULL)
      /\ Here' = Here /\ Lost' = Lost /\ Removed' = Removed /\ NULL' = NULL
  BY <1>1, Zenon DEF DiscAt, disk_get_num_images, Contains, NULL, Here, Lost, Removed, Miscounted
<1>4. DriveFollows => DriveFollows'
  BY <1>1, <1>3, Zenon DEF DriveFollows
<1>5. Foreseen => Foreseen'
  BY <1>1, <1>3, Zenon DEF Foreseen
<1> QED BY <1>2, <1>4, <1>5, Zenon DEF DiscInv

LEMMA DiscKeeps == ASSUME DiscInv, [DiscNext]_discVars PROVE DiscInv'
<1>1. 0..MaxImages \subseteq Nat
  BY DiscControlAssumption DEF DiscControlAssumption
<1>2. CASE UNCHANGED discVars
  BY <1>2, StillKeeps, Zenon
<1>3. CASE Undefined
  BY <1>3, StillKeeps, Zenon DEF Undefined
<1>4. ASSUME NEW ejected \in BOOLEAN, disk_set_eject_state(ejected) PROVE DiscInv'
  <2>1. ListSound /\ DriveFollows
    BY <1>4, Zenon DEF DiscInv, Foreseen, disk_set_eject_state, MayCall
  <2> QED BY <1>4, <2>1, EjectKeeps, Zenon
<1>5. ASSUME NEW index \in 0..MaxImages,
             disk_set_image_index(index) \/ disk_replace_image_index(index) \/ remove_image_index(index)
      PROVE  DiscInv'
  <2>1. ListSound /\ DriveFollows
    BY <1>5, Zenon DEF DiscInv, Foreseen, disk_set_image_index, disk_replace_image_index, remove_image_index,
                       MayCall, MayFill
  <2>2. index \in Nat
    BY <1>1
  <2> QED BY <1>5, <2>1, <2>2, SelectKeeps, ReplaceKeeps, RemoveKeeps, Zenon
<1>6. CASE disk_add_image_index \/ Save \/ Load
  <2>1. ListSound /\ DriveFollows
    BY <1>6, Zenon DEF DiscInv, Foreseen, disk_add_image_index, Save, Load, MayCall
  <2> QED BY <1>6, <2>1, AddKeeps, SaveKeeps, LoadKeeps, Zenon
<1> QED BY <1>2, <1>3, <1>4, <1>5, <1>6, Zenon DEF DiscNext

LEMMA DiscInvariant == DiscSpec => []DiscInv
BY DiscStarts, DiscKeeps, PTL DEF DiscSpec

\* Whatever is called in whatever order, with images that are replaced, removed and added and
\* states that are loaded with the tray open or closed, libretro.cpp indexes past cdifs or
\* cdifs_scex_ids, or calls an interface that is not there (CDInsertEject, CalcDiscSCEx,
\* StateAction), only while an added index waits for its image or after the selected image was
\* removed; and where the two flags of the tray agree, the drive's interface is in the list.
THEOREM FaultsDoComeForeseen == DiscSpec => []FaultsAreForeseen
<1>1. DiscInv => FaultsAreForeseen
  <2> SUFFICES ASSUME DiscInv PROVE FaultsAreForeseen
    OBVIOUS
  <2>1. fault # "none" => Contains(cdifs, NULL) \/ chosen = Removed
    BY Zenon DEF DiscInv, Foreseen, ListSound
  <2>2. ASSUME fault = "none", eject_state = CD_TrayOpen, Cur_CDIF # NULL PROVE Contains(cdifs, Cur_CDIF)
    <3>1. ListSound /\ DriveFollows
      BY <2>2, Zenon DEF DiscInv, Foreseen
    <3>2. ~CD_TrayOpen /\ ~eject_state /\ ~(CD_SelectedDisc < 0)
      BY <2>2, <3>1, Zenon DEF DriveFollows
    <3>3. CD_SelectedDisc >= 0
      BY <3>1, <3>2, ListFacts
    <3>4. Here < scex_ids /\ Cur_CDIF = cdifs[Here + 1]
      BY <3>1, <3>2, <3>3, Zenon DEF DriveFollows
    <3>5. Here + 1 \in 1..Len(cdifs)
      BY <3>1, <3>3, <3>4, ListFacts DEF Here
    <3> QED BY <3>4, <3>5, Zenon DEF Contains
  <2> QED BY <2>1, <2>2, Zenon DEF FaultsAreForeseen
<1> QED BY <1>1, DiscInvariant, PTL

\* From a list of images, the drive holds the disc that the frontend chose, or none, whenever the
\* core's tray is what the frontend sees and the choice is not lost: disk_set_eject_state,
\* disk_set_image_index and disk_replace_image_index keep the selection at its disc while the
\* list moves under it, and StateAction puts in what it restores.
THEOREM DriveDoesHoldChoice == DiscSpec => []DriveHoldsChoice
<1>1. DiscInv => DriveHoldsChoice
  <2> SUFFICES ASSUME DiscInv, ~CD_IsPBP, fault = "none", eject_state = CD_TrayOpen, chosen \notin Lost
               PROVE  Drive = IF eject_state THEN <<>> ELSE chosen
    BY Zenon DEF DriveHoldsChoice
  <2> DEFINE sel == CD_SelectedDisc
  <2>1. ListSound /\ DriveFollows
    BY Zenon DEF DiscInv, Foreseen
  <2>2. pbp_disc = 0 /\ chosen = DiscAt(sel)
    BY <2>1, Zenon DEF DriveFollows
  <2>3. DiscAt(sel) = IF sel \in 0..Len(cdifs) - 1 THEN <<cdifs[sel + 1], 0>> ELSE <<>>
    BY Zenon DEF DiscAt, disk_get_num_images
  <2>4. CASE CD_TrayOpen
    BY <2>1, <2>4, Zenon DEF Drive, DriveFollows
  <2>5. CASE ~CD_TrayOpen /\ sel < 0
    <3>1. sel \notin 0..Len(cdifs) - 1
      BY <2>1, <2>5, ListFacts
    <3>2. Cur_CDIF = NULL
      BY <2>1, <2>5, Zenon DEF DriveFollows
    <3> QED BY <2>2, <2>3, <2>5, <3>1, <3>2, Zenon DEF Drive
  <2>6. CASE ~CD_TrayOpen /\ ~(sel < 0)
    <3>1. sel >= 0
      BY <2>1, <2>6, ListFacts
    <3>2. sel < scex_ids /\ Cur_CDIF = cdifs[sel + 1]
      BY <2>1, <2>6, <3>1, Zenon DEF DriveFollows, Here
    <3>3. sel \in 0..Len(cdifs) - 1 /\ sel + 1 \in 1..Len(cdifs) /\ sel + 1 <= scex_ids
      BY <2>1, <3>1, <3>2, ListFacts
    <3>4. cdifs[sel + 1] # NULL
      BY <2>1, <3>3, ListFacts, Zenon
    <3> QED BY <2>2, <2>3, <2>6, <3>2, <3>3, <3>4, Zenon DEF Drive
  <2> QED BY <2>4, <2>5, <2>6, Zenon
<1> QED BY <1>1, DiscInvariant, PTL
=============================================================================
