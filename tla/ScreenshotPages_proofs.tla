------------------------- MODULE ScreenshotPages_proofs -------------------------
(* Theorems about ScreenshotPages, for any employees, screenshots, addresses and *)
(* numbers of requests: the image that is shown belongs to the present selection *)
(* and access reason, no object URL is left behind, a settled list belongs to    *)
(* the selection unless answers crossed, and neighbours are compared.            *)
EXTENDS ScreenshotPages, TLAPS, SequenceTheorems

\* A fetch of an earlier run cannot pass for one of the active run, and the fetch
\* of the active run is for the properties that are shown.
FetchesAreDated ==
  \A f \in fetches :
    /\ f.run \in Nat /\ f.run <= effect
    /\ f.run = effect => f.uri = props.uri /\ f.uri \in ApiUri /\ props.reason
ImageInv == effect \in Nat /\ FetchesAreDated /\ NoObjectUrlLeaks /\ ShownImageIsCurrent

LEMMA ImageInitInv ==
  ASSUME NEW p, ImageInit(p)
  PROVE  ImageInv
<1>1. asset.state # "ready"
  BY DEF ImageInit, InitialState
<1> QED
  BY <1>1 DEF ImageInit, ImageInv, FetchesAreDated, NoObjectUrlLeaks, ShownImageIsCurrent

\* The cleanup of the active run leaves nothing that a later one could mistake.
LEMMA RunEffectInv ==
  ASSUME ImageInv, NEW p, p.reason \in BOOLEAN, RunEffect(p)
  PROVE  ImageInv'
<1> DEFINE run == effect + 1
           fetched == [run |-> run, uri |-> p.uri]
<1>1. effect' = run /\ run \in Nat /\ effect < run /\ props' = p /\ objectUrls' = objectUrls \ {effect}
  BY DEF RunEffect, ImageInv
<1>2. NoObjectUrlLeaks'
  BY <1>1 DEF ImageInv, NoObjectUrlLeaks
<1>3. CASE InitialState(p) # "idle"
  <2>1. asset'.state = InitialState(p) /\ InitialState(p) \in {"missing", "need_reason"} /\ fetches' = fetches
    BY <1>3 DEF RunEffect, InitialState
  <2>2. FetchesAreDated'
    BY <1>1, <2>1 DEF ImageInv, FetchesAreDated
  <2> QED
    BY <1>1, <1>2, <2>1, <2>2 DEF ImageInv, ShownImageIsCurrent
<1>4. CASE InitialState(p) = "idle" /\ p.uri \notin ApiUri
  <2>1. asset' = [state |-> "ready", src |-> [run |-> 0, uri |-> p.uri]] /\ fetches' = fetches
    BY <1>4 DEF RunEffect
  <2>2. FetchesAreDated'
    BY <1>1, <2>1 DEF ImageInv, FetchesAreDated
  <2> QED
    BY <1>1, <1>2, <1>4, <2>1, <2>2 DEF ImageInv, ShownImageIsCurrent
<1>5. CASE InitialState(p) = "idle" /\ p.uri \in ApiUri
  <2>1. asset' = [state |-> "loading", src |-> NoSrc] /\ fetches' = fetches \cup {fetched}
    BY <1>5 DEF RunEffect
  <2>2. p.reason
    BY <1>5 DEF InitialState
  <2>3. FetchesAreDated'
    BY <1>1, <1>5, <2>1, <2>2 DEF ImageInv, FetchesAreDated
  <2> QED
    BY <1>1, <1>2, <2>1, <2>3 DEF ImageInv, ShownImageIsCurrent
<1> QED
  BY <1>3, <1>4, <1>5

\* An answer, early or late.
LEMMA FetchSettledInv ==
  ASSUME ImageInv, NEW f \in fetches, NEW answer \in Statuses, FetchSettled(f, answer)
  PROVE  ImageInv'
<1>1. effect' = effect /\ props' = props /\ fetches' = fetches \ {f}
  BY DEF FetchSettled
<1>2. effect' \in Nat /\ FetchesAreDated'
  BY <1>1 DEF ImageInv, FetchesAreDated
<1>3. CASE f.run # effect
  BY <1>1, <1>2, <1>3 DEF FetchSettled, ImageInv, NoObjectUrlLeaks, ShownImageIsCurrent
<1>4. CASE f.run = effect /\ answer = 200
  <2>1. asset' = [state |-> "ready", src |-> f] /\ objectUrls' = objectUrls \cup {f.run}
    BY <1>4 DEF FetchSettled
  <2>2. f.uri = props.uri /\ props.reason
    BY <1>4 DEF ImageInv, FetchesAreDated
  <2> QED
    BY <1>1, <1>2, <1>4, <2>1, <2>2 DEF ImageInv, NoObjectUrlLeaks, ShownImageIsCurrent
<1>5. CASE f.run = effect /\ answer # 200
  <2>1. asset' = [state |-> ErrorState(answer), src |-> NoSrc] /\ objectUrls' = objectUrls
    BY <1>5 DEF FetchSettled
  <2>2. ErrorState(answer) # "ready"
    BY DEF ErrorState
  <2> QED
    BY <1>1, <1>2, <2>1, <2>2 DEF ImageInv, NoObjectUrlLeaks, ShownImageIsCurrent
<1> QED
  BY <1>3, <1>4, <1>5

-----------------------------------------------------------------------------
(* The pages around the image *)

ReasonIsBoolean == reason \in BOOLEAN
PageInv == ImageInv /\ ReasonIsBoolean

LEMMA ShowImageInv ==
  ASSUME ImageInv, NEW d, NEW why \in BOOLEAN, ShowImage(ImageProps(d, why))
  PROVE  ImageInv'
<1>1. CASE RunEffect(ImageProps(d, why))
  <2>1. ImageProps(d, why).reason \in BOOLEAN
    BY DEF ImageProps
  <2> QED
    BY <1>1, <2>1, RunEffectInv
<1>2. CASE UNCHANGED image
  BY <1>2 DEF image, ImageInv, FetchesAreDated, NoObjectUrlLeaks, ShownImageIsCurrent
<1> QED
  BY <1>1, <1>2 DEF ShowImage

LEMMA PageInit == Init => PageInv
BY ImageInitInv DEF Init, PageInv, ReasonIsBoolean

LEMMA PageStep == PageInv /\ [Next]_vars => PageInv'
<1> SUFFICES ASSUME PageInv, [Next]_vars PROVE PageInv'
  OBVIOUS
<1>1. ASSUME UNCHANGED <<reason, image>> PROVE PageInv'
  BY <1>1 DEF image, PageInv, ReasonIsBoolean, ImageInv, FetchesAreDated, NoObjectUrlLeaks, ShownImageIsCurrent
<1>2. CASE Choose
  <2>1. UNCHANGED <<reason, image>>
    BY <1>2 DEF Choose, TimelineDepartment, TimelineEmployee, TimelinePaged, GalleryFilter, GalleryPaged,
                Refresh, Navigate
  <2> QED
    BY <1>1, <2>1
<1>3. CASE (\E adopts \in BOOLEAN : RosterArrived(adopts)) \/ GalleryRosterArrived
             \/ (\E f \in flight, live \in BOOLEAN : ListAnswered(f, live))
  <2>1. UNCHANGED <<reason, image>>
    BY <1>3 DEF RosterArrived, GalleryRosterArrived, ListAnswered
  <2> QED
    BY <1>1, <2>1
<1>4. ASSUME NEW f \in flight, NEW found \in BOOLEAN, NEW live \in BOOLEAN, DetailAnswered(f, found, live)
      PROVE  PageInv'
  <2>1. ShowImage(ImageProps(detail', reason)) /\ reason' = reason
    BY <1>4 DEF DetailAnswered
  <2> QED
    BY <2>1, ShowImageInv DEF PageInv, ReasonIsBoolean
<1>5. CASE TypeReason
  <2>1. ShowImage(ImageProps(detail, reason')) /\ reason' \in BOOLEAN
    BY <1>5 DEF TypeReason
  <2> QED
    BY <2>1, ShowImageInv DEF PageInv, ReasonIsBoolean
<1>6. CASE SettleImage /\ UNCHANGED <<mounted, list, trace, reason, detail>>
  <2>1. PICK f \in fetches, answer \in Statuses : FetchSettled(f, answer)
    BY <1>6 DEF SettleImage
  <2> QED
    BY <1>6, <2>1, FetchSettledInv DEF PageInv, ReasonIsBoolean
<1>7. CASE UNCHANGED vars
  BY <1>1, <1>7 DEF vars
<1> QED
  BY <1>2, <1>3, <1>4, <1>5, <1>6, <1>7 DEF Next, Answered

LEMMA PageInvariant == Spec => []PageInv
BY PageInit, PageStep, PTL DEF Spec

\* However the selection and the reason change while fetches are running, every
\* object URL that an earlier run created has been revoked.
THEOREM UrlsRevoked == Spec => []NoObjectUrlLeaks
<1>1. PageInv => NoObjectUrlLeaks
  BY DEF PageInv, ImageInv
<1> QED
  BY <1>1, PageInvariant, PTL

\* The image that is shown is that of the screenshot on the page, fetched with
\* the reason that is given, and its object URL still exists.
THEOREM ImageIsCurrent == Spec => []ShownImageIsCurrent
<1>1. PageInv => ShownImageIsCurrent
  BY DEF PageInv, ImageInv
<1> QED
  BY <1>1, PageInvariant, PTL

-----------------------------------------------------------------------------
(* The detail page follows its address *)

\* Only the last request can be answered for the present address.
RequestsAreDated ==
  mounted = "detail" =>
    /\ sent \in Nat
    /\ \A f \in flight :
         /\ f.id \in Nat /\ f.id <= sent
         /\ f.id = sent => f.q.shot = sel.shot

LEMMA DatedInit == Init => RequestsAreDated
<1> SUFFICES ASSUME Init, mounted = "detail" PROVE RequestsAreDated
  BY DEF RequestsAreDated
<1>1. sent = 1 /\ flight = {[id |-> 1, q |-> sel]}
  BY DEF Init, OpenDetail
<1> QED
  BY <1>1 DEF RequestsAreDated

LEMMA NavigateAsks ==
  ASSUME RequestsAreDated, NEW shot \in Shot, Navigate(shot)
  PROVE  /\ sent' = sent + 1 /\ mounted = "detail" /\ mounted' = mounted /\ detail' = detail
         /\ flight' = flight \cup {[id |-> sent + 1, q |-> sel']}
<1> DEFINE s == [shot |-> shot, emp |-> Owner(shot)]
<1>1. Request(<<s>>) /\ sel' = s /\ mounted = "detail" /\ mounted' = mounted /\ detail' = detail
  BY DEF Navigate
<1> HIDE DEF s
<1>2. Len(<<s>>) = 1 /\ DOMAIN <<s>> = {1} /\ <<s>>[1] = s
  OBVIOUS
<1>3. {[id |-> sent + i, q |-> <<s>>[i]] : i \in DOMAIN <<s>>} = {[id |-> sent + 1, q |-> s]}
  BY <1>2
<1> QED
  BY <1>1, <1>2, <1>3 DEF Request

\* The view of the page and what it should be a view of.
Wanted == IF mounted = "detail" THEN sel.shot ELSE None
Viewed == detail.asked

LEMMA DetailStep ==
  ASSUME RequestsAreDated, [Next]_vars
  PROVE  RequestsAreDated' /\ [View!Ask \/ View!Show]_<<Wanted, Viewed>>
<1>1. ASSUME UNCHANGED <<mounted, sel, sent, detail>>, flight' \subseteq flight
      PROVE  RequestsAreDated' /\ UNCHANGED <<Wanted, Viewed>>
  BY <1>1 DEF RequestsAreDated, Wanted, Viewed
<1>2. ASSUME mounted # "detail", UNCHANGED <<mounted, detail>>
      PROVE  RequestsAreDated' /\ UNCHANGED <<Wanted, Viewed>>
  BY <1>2 DEF RequestsAreDated, Wanted, Viewed
<1>3. ASSUME NEW shot \in Shot, Navigate(shot)
      PROVE  RequestsAreDated' /\ [View!Ask \/ View!Show]_<<Wanted, Viewed>>
  <2>1. /\ sent' = sent + 1 /\ mounted = "detail" /\ mounted' = mounted /\ detail' = detail
        /\ flight' = flight \cup {[id |-> sent + 1, q |-> sel']}
    BY <1>3, NavigateAsks
  <2>2. RequestsAreDated'
    <3> DEFINE asked == [id |-> sent + 1, q |-> sel']
    <3>1. asked.id = sent + 1 /\ asked.q = sel'
      OBVIOUS
    <3>2. flight' = flight \cup {asked}
      BY <2>1
    <3> HIDE DEF asked
    <3>3. sent \in Nat /\ \A f \in flight : f.id \in Nat /\ f.id < sent + 1
      BY <2>1 DEF RequestsAreDated
    <3> QED
      BY <2>1, <3>1, <3>2, <3>3 DEF RequestsAreDated
  <2>3. Viewed' = Viewed
    BY <2>1 DEF Viewed
  <2>4. View!Ask \/ UNCHANGED <<Wanted, Viewed>>
    BY <2>3 DEF View!Ask, Wanted, Viewed
  <2> QED
    BY <2>2, <2>4
<1>4. ASSUME NEW f \in flight, NEW found \in BOOLEAN, NEW live \in BOOLEAN, DetailAnswered(f, found, live)
      PROVE  RequestsAreDated' /\ [View!Ask \/ View!Show]_<<Wanted, Viewed>>
  <2>1. /\ mounted = "detail" /\ UNCHANGED <<mounted, sel, sent>> /\ flight' = flight \ {f}
        /\ detail' = IF f.id = sent THEN Comparison(f.q.shot, f.q.emp, found, live) ELSE detail
    BY <1>4 DEF DetailAnswered
  <2>2. RequestsAreDated' /\ Wanted' = Wanted
    BY <2>1 DEF RequestsAreDated, Wanted
  <2>3. CASE f.id = sent
    <3>1. Viewed' = f.q.shot
      BY <2>1, <2>3 DEF Viewed, Comparison
    <3>2. f.q.shot = Wanted
      BY <2>1, <2>3 DEF RequestsAreDated, Wanted
    <3>3. View!Show
      BY <2>2, <3>1, <3>2 DEF View!Show, Wanted, Viewed
    <3> QED
      BY <2>2, <3>3
  <2>4. CASE f.id # sent
    BY <2>1, <2>2, <2>4 DEF Viewed
  <2> QED
    BY <2>3, <2>4
<1>5. CASE Choose
  <2>1. CASE \E shot \in Shot : Navigate(shot)
    BY <1>3, <2>1
  <2>2. CASE ~ \E shot \in Shot : Navigate(shot)
    <3>1. mounted # "detail" /\ UNCHANGED <<mounted, detail>>
      BY <1>5, <2>2 DEF Choose, TimelineDepartment, TimelineEmployee, TimelinePaged, GalleryFilter, GalleryPaged, Refresh
    <3> QED
      BY <1>2, <3>1
  <2> QED
    BY <2>1, <2>2
<1>6. CASE (\E adopts \in BOOLEAN : RosterArrived(adopts)) \/ GalleryRosterArrived
             \/ (\E f \in flight, live \in BOOLEAN : ListAnswered(f, live))
  <2>1. mounted # "detail" /\ UNCHANGED <<mounted, detail>>
    BY <1>6 DEF RosterArrived, GalleryRosterArrived, ListAnswered
  <2> QED
    BY <1>2, <2>1
<1>7. CASE TypeReason \/ (SettleImage /\ UNCHANGED <<mounted, list, trace, reason, detail>>) \/ UNCHANGED vars
  <2>1. UNCHANGED <<mounted, sel, sent, detail>> /\ flight' \subseteq flight
    BY <1>7 DEF TypeReason, vars, list
  <2> QED
    BY <1>1, <2>1
<1> QED
  BY <1>4, <1>5, <1>6, <1>7 DEF Next, Answered

\* The safety part of ImplementsLatestView: the detail page replaces what it
\* shows only by the comparison for its present address, in whatever order the
\* answers to earlier addresses arrive.
THEOREM DetailFollowsAddress == Spec => [][View!Ask \/ View!Show]_<<Wanted, Viewed>>
BY DatedInit, DetailStep, PTL DEF Spec

-----------------------------------------------------------------------------
(* What is shown once every request is answered *)

Lists == mounted \in {"timeline", "gallery"}
Query(s) == IF mounted = "timeline" THEN TimelineQuery(s) ELSE GalleryQuery(s)
Wants(s) == mounted = "timeline" => TimelineReady(s)

\* Requests are numbered as they are sent.
Numbered ==
  /\ sent \in Nat /\ applied \in Nat
  /\ \A f \in flight : f.id \in 1 .. sent
  /\ \A f, g \in flight : f.id = g.id => f = g

\* The last request is for the present selection.  It is under way, or its answer
\* is shown unless an older one was applied after it.
LastIsSelected(s) ==
  Wants(s) => \/ \E f \in flight : f.id = sent /\ f.q = Query(s)
              \/ /\ \A f \in flight : f.id < sent
                 /\ ~ overtaken => applied = sent /\ shown.q = Query(s)
ListInv == Lists => Numbered /\ LastIsSelected(sel)

\* Requests for what is wanted: the last of them is the last one that is sent.
LEMMA OneAsked ==
  ASSUME NEW q, Request(<<q>>)
  PROVE  sent' = sent + 1 /\ flight' = flight \cup {[id |-> sent + 1, q |-> q]}
<1>1. Len(<<q>>) = 1 /\ DOMAIN <<q>> = {1} /\ <<q>>[1] = q
  OBVIOUS
<1>2. {[id |-> sent + i, q |-> <<q>>[i]] : i \in DOMAIN <<q>>} = {[id |-> sent + 1, q |-> q]}
  BY <1>1
<1> QED
  BY <1>1, <1>2 DEF Request

LEMMA TwoAsked ==
  ASSUME NEW p, NEW q, Request(<<p, q>>)
  PROVE  sent' = sent + 2 /\ flight' = flight \cup {[id |-> sent + 1, q |-> p], [id |-> sent + 2, q |-> q]}
<1>1. Len(<<p, q>>) = 2 /\ DOMAIN <<p, q>> = {1, 2} /\ <<p, q>>[1] = p /\ <<p, q>>[2] = q
  OBVIOUS
<1>2. {[id |-> sent + i, q |-> <<p, q>>[i]] : i \in DOMAIN <<p, q>>} = {[id |-> sent + 1, q |-> p], [id |-> sent + 2, q |-> q]}
  BY <1>1
<1> QED
  BY <1>1, <1>2 DEF Request

LEMMA NoneAsked ==
  ASSUME Request(<<>>), Numbered
  PROVE  sent' = sent /\ flight' = flight
<1>1. Len(<<>>) = 0 /\ DOMAIN <<>> = {}
  OBVIOUS
<1>2. {[id |-> sent + i, q |-> <<>>[i]] : i \in DOMAIN <<>>} = {}
  BY <1>1
<1> QED
  BY <1>1, <1>2 DEF Request, Numbered

\* A request that is sent for s, after others or alone.
LEMMA LastAsked ==
  ASSUME Numbered, NEW q, Request(<<q>>) \/ \E p : Request(<<p, q>>), UNCHANGED applied
  PROVE  Numbered' /\ \E f \in flight' : f.id = sent' /\ f.q = q
<1>1. CASE Request(<<q>>)
  <2> DEFINE g == [id |-> sent + 1, q |-> q]
  <2>1. g.id = sent + 1 /\ g.q = q
    OBVIOUS
  <2>2. sent' = sent + 1 /\ flight' = flight \cup {g}
    BY <1>1, OneAsked
  <2> HIDE DEF g
  <2> QED
    BY <2>1, <2>2 DEF Numbered
<1>2. ASSUME NEW p, Request(<<p, q>>) PROVE Numbered' /\ \E f \in flight' : f.id = sent' /\ f.q = q
  <2> DEFINE f == [id |-> sent + 1, q |-> p]
             g == [id |-> sent + 2, q |-> q]
  <2>1. f.id = sent + 1 /\ g.id = sent + 2 /\ g.q = q
    OBVIOUS
  <2>2. sent' = sent + 2 /\ flight' = flight \cup {f, g}
    BY <1>2, TwoAsked
  <2> HIDE DEF f, g
  <2> QED
    BY <2>1, <2>2 DEF Numbered
<1> QED
  BY <1>1, <1>2

LEMMA Joined ==
  ASSUME NEW p, NEW q
  PROVE  <<>> \o <<q>> = <<q>> /\ <<p>> \o <<>> = <<p>> /\ <<p>> \o <<q>> = <<p, q>> /\ <<>> \o <<>> = <<>>
<1>1. <<>> \in Seq({p, q}) /\ <<p>> \in Seq({p, q}) /\ <<q>> \in Seq({p, q})
  OBVIOUS
<1>2. <<>> \o <<q>> = <<q>> /\ <<p>> \o <<>> = <<p>> /\ <<>> \o <<>> = <<>>
  BY <1>1, ConcatEmptySeq
<1>3. <<p>> \o <<q>> = <<p, q>>
  <2>1. Append(<<p>>, q) = <<p>> \o <<q>>
    BY <1>1, AppendIsConcat
  <2>2. Append(<<p>>, q) = <<p, q>>
    <3> DEFINE a == Append(<<p>>, q)
               b == <<p, q>>
    <3>1. a \in Seq({p, q}) /\ Len(a) = 2 /\ a[1] = p /\ a[2] = q
      BY <1>1
    <3>2. b \in Seq({p, q}) /\ Len(b) = 2 /\ b[1] = p /\ b[2] = q
      OBVIOUS
    <3> HIDE DEF a, b
    <3>3. a = b
      BY <3>1, <3>2, SeqEqual
    <3> QED
      BY <3>3 DEF a, b
  <2> QED
    BY <2>1, <2>2
<1> QED
  BY <1>2, <1>3

\* What the effects of a change from s by way of t to u ask for.
LEMMA AskedByEffects ==
  ASSUME Numbered, NEW s, NEW t, NEW u, NEW a, NEW b, LastIsSelected(s), Lists,
         UNCHANGED <<mounted, shown, applied, overtaken>>,
         a = (IF t # s /\ Wants(t) THEN <<Query(t)>> ELSE <<>>),
         b = (IF u # t /\ Wants(u) THEN <<Query(u)>> ELSE <<>>),
         Request(a \o b)
  PROVE  Numbered' /\ LastIsSelected(u)'
<1>1. Query(u)' = Query(u) /\ Wants(u)' = Wants(u)
  BY DEF Query, Wants
<1>2. \A p, q : <<>> \o <<q>> = <<q>> /\ <<p>> \o <<>> = <<p>> /\ <<p>> \o <<q>> = <<p, q>> /\ <<>> \o <<>> = <<>>
  BY Joined
<1>3. CASE b # <<>>
  <2>1. Wants(u) /\ (Request(<<Query(u)>>) \/ \E p : Request(<<p, Query(u)>>))
    BY <1>2, <1>3
  <2> QED
    BY <1>1, <2>1, LastAsked DEF LastIsSelected
<1>4. CASE b = <<>> /\ a # <<>>
  <2>1. b = <<>> => u = t \/ ~ Wants(u)
    OBVIOUS
  <2>2. Request(<<Query(t)>>) /\ (Wants(u) => u = t)
    BY <1>2, <1>4, <2>1
  <2> QED
    BY <1>1, <2>2, LastAsked DEF LastIsSelected
<1>5. CASE b = <<>> /\ a = <<>>
  <2>1. Wants(u) => u = s
    BY <1>5
  <2>2. sent' = sent /\ flight' = flight
    BY <1>2, <1>5, NoneAsked
  <2>3. LastIsSelected(u)
    BY <2>1 DEF LastIsSelected
  <2> QED
    BY <1>1, <2>2, <2>3 DEF LastIsSelected, Numbered
<1> QED
  BY <1>3, <1>4, <1>5

LEMMA TimelineAsks ==
  ASSUME mounted = "timeline", Numbered, NEW s, LastIsSelected(s), NEW t, NEW here, NEW inFlight,
         TimelineRender(s, t, here, inFlight), UNCHANGED <<mounted, shown, applied, overtaken>>
  PROVE  Numbered' /\ LastIsSelected(sel)'
<1> DEFINE u == OfferedOrFirst(t, here)
           a == IF t # s /\ Wants(t) THEN <<Query(t)>> ELSE <<>>
           b == IF u # t /\ Wants(u) THEN <<Query(u)>> ELSE <<>>
<1>1. sel' = u /\ Request((IF t # s THEN TimelineLoads(t) ELSE <<>>) \o (IF u # t THEN TimelineLoads(u) ELSE <<>>))
  BY DEF TimelineRender
<1> HIDE DEF u
<1>2. a = (IF t # s THEN TimelineLoads(t) ELSE <<>>) /\ b = (IF u # t THEN TimelineLoads(u) ELSE <<>>)
  BY DEF TimelineLoads, Query, Wants
<1>3. Request(a \o b)
  BY <1>1, <1>2
<1>4. Numbered' /\ LastIsSelected(u)'
  BY <1>3, AskedByEffects DEF Lists
<1> QED
  BY <1>1, <1>4 DEF LastIsSelected, Wants, Query

LEMMA GalleryAsks ==
  ASSUME mounted = "gallery", Numbered, NEW s, LastIsSelected(s), NEW t, NEW here,
         GalleryRender(s, t, here), UNCHANGED <<mounted, shown, applied, overtaken>>
  PROVE  Numbered' /\ LastIsSelected(sel)'
<1> DEFINE u == FirstPage(s, OfferedOrNone(t, here))
           a == IF t # s /\ Wants(t) THEN <<Query(t)>> ELSE <<>>
           b == IF u # t /\ Wants(u) THEN <<Query(u)>> ELSE <<>>
<1>1. sel' = u /\ Request((IF t # s THEN <<GalleryQuery(t)>> ELSE <<>>) \o (IF u # t THEN <<GalleryQuery(u)>> ELSE <<>>))
  BY DEF GalleryRender
<1> HIDE DEF u
<1>2. a = (IF t # s THEN <<GalleryQuery(t)>> ELSE <<>>) /\ b = (IF u # t THEN <<GalleryQuery(u)>> ELSE <<>>)
  BY DEF Query, Wants
<1>3. Request(a \o b)
  BY <1>1, <1>2
<1>4. Numbered' /\ LastIsSelected(u)'
  BY <1>3, AskedByEffects DEF Lists
<1> QED
  BY <1>1, <1>4 DEF LastIsSelected, Wants, Query

LEMMA ListIsAnswered ==
  ASSUME Numbered, LastIsSelected(sel), NEW f, NEW live, ListAnswered(f, live)
  PROVE  Numbered' /\ LastIsSelected(sel)'
<1>1. /\ f \in flight /\ flight' = flight \ {f} /\ shown'.q = f.q /\ applied' = f.id
      /\ overtaken' = (overtaken \/ f.id < applied) /\ UNCHANGED <<mounted, sel, sent>>
  BY DEF ListAnswered
<1>2. Numbered'
  BY <1>1 DEF Numbered
<1>3. Query(sel)' = Query(sel) /\ Wants(sel)' = Wants(sel)
  BY <1>1 DEF Query, Wants
<1>4. ASSUME Wants(sel)
      PROVE  LastIsSelected(sel)'
  <2>1. CASE f.id = sent
    <3>1. f.q = Query(sel)
      BY <1>1, <1>4, <2>1 DEF LastIsSelected, Numbered
    <3>2. \A g \in flight' : g.id < sent
      BY <1>1, <2>1 DEF Numbered
    <3> QED
      BY <1>1, <1>3, <2>1, <3>1, <3>2 DEF LastIsSelected
  <2>2. CASE f.id # sent
    <3>1. CASE \E g \in flight : g.id = sent /\ g.q = Query(sel)
      BY <1>1, <1>3, <2>2, <3>1 DEF LastIsSelected
    <3>2. CASE ~ \E g \in flight : g.id = sent /\ g.q = Query(sel)
      <4>1. f.id < sent /\ (~ overtaken => applied = sent) /\ \A g \in flight : g.id < sent
        BY <1>1, <1>4, <3>2 DEF LastIsSelected
      <4>2. overtaken'
        BY <1>1, <4>1
      <4> QED
        BY <1>1, <4>1, <4>2 DEF LastIsSelected
    <3> QED
      BY <3>1, <3>2
  <2> QED
    BY <2>1, <2>2
<1> QED
  BY <1>2, <1>3, <1>4 DEF LastIsSelected

LEMMA ListInit == Init => ListInv
<1> SUFFICES ASSUME Init, Lists PROVE Numbered /\ LastIsSelected(sel)
  BY DEF ListInv
<1>1. applied = 0
  BY DEF Init
<1>2. CASE mounted = "gallery"
  <2> DEFINE f == [id |-> 1, q |-> GalleryQuery(sel)]
  <2>1. f.id = 1 /\ f.q = Query(sel)
    BY <1>2 DEF Query
  <2>2. sent = 1 /\ flight = {f}
    BY <1>2 DEF Init, OpenGallery
  <2> HIDE DEF f
  <2> QED
    BY <1>1, <2>1, <2>2 DEF Numbered, LastIsSelected
<1>3. CASE mounted = "timeline"
  <2>1. PICK e, d, p : OpenTimeline(e, d, p)
    BY <1>3 DEF Init
  <2> DEFINE s == Selection(e, d, All, p, 1)
             u == OfferedOrFirst(s, FALSE)
             queries == TimelineLoads(s) \o (IF u # s THEN TimelineLoads(u) ELSE <<>>)
  <2>2. sel = u /\ sent = Len(queries) /\ flight = {[id |-> i, q |-> queries[i]] : i \in DOMAIN queries}
    BY <2>1 DEF OpenTimeline
  <2>3. TimelineReady(u) => u # s \/ TimelineLoads(u) = TimelineLoads(s)
    OBVIOUS
  <2> HIDE DEF s, u
  <2>4. \A v : TimelineLoads(v) = IF TimelineReady(v) THEN <<Query(v)>> ELSE <<>>
    BY <1>3 DEF TimelineLoads, Query
  <2>5. /\ queries \in {<<>>, <<Query(u)>>, <<Query(s)>>, <<Query(s), Query(u)>>}
        /\ TimelineReady(u) => queries \in {<<Query(u)>>, <<Query(s), Query(u)>>}
    BY <2>4, Joined
  <2> HIDE DEF queries
  <2>6. queries \in Seq({Query(u), Query(s)}) /\ (TimelineReady(u) => Len(queries) \in 1 .. 2 /\ queries[Len(queries)] = Query(u))
    <3>1. \A x, y : /\ <<>> \in Seq({x, y}) /\ <<x>> \in Seq({x, y}) /\ <<y>> \in Seq({x, y}) /\ <<y, x>> \in Seq({x, y})
                  /\ Len(<<x>>) = 1 /\ <<x>>[1] = x /\ Len(<<y, x>>) = 2 /\ <<y, x>>[2] = x
      OBVIOUS
    <3> DEFINE x == Query(u)
               y == Query(s)
    <3>2. /\ queries \in {<<>>, <<x>>, <<y>>, <<y, x>>}
          /\ TimelineReady(u) => queries \in {<<x>>, <<y, x>>}
      BY <2>5
    <3> HIDE DEF x, y
    <3>3. queries \in Seq({x, y})
      BY <3>1, <3>2
    <3>4. ASSUME TimelineReady(u) PROVE Len(queries) \in 1 .. 2 /\ queries[Len(queries)] = x
      <4>1. CASE queries = <<x>>
        BY <3>1, <4>1
      <4>2. CASE queries = <<y, x>>
        BY <3>1, <4>2
      <4> QED
        BY <3>2, <3>4, <4>1, <4>2
    <3> QED
      BY <3>3, <3>4 DEF x, y
  <2>7. DOMAIN queries = 1 .. Len(queries) /\ Len(queries) \in Nat
    BY <2>6
  <2> DEFINE request(i) == [id |-> i, q |-> queries[i]]
  <2>8. flight = {request(i) : i \in DOMAIN queries} /\ \A i : request(i).id = i /\ request(i).q = queries[i]
    BY <2>2
  <2> HIDE DEF request
  <2>9. \A f \in flight : f.id \in 1 .. sent /\ f = request(f.id)
    BY <2>2, <2>7, <2>8
  <2>10. Numbered
    BY <1>1, <2>2, <2>7, <2>9 DEF Numbered
  <2>11. ASSUME TimelineReady(u) PROVE \E f \in flight : f.id = sent /\ f.q = Query(sel)
    <3>1. request(sent) \in flight /\ request(sent).id = sent /\ request(sent).q = Query(u)
      BY <2>2, <2>6, <2>7, <2>8, <2>11
    <3> QED
      BY <2>2, <3>1
  <2> QED
    BY <1>3, <2>2, <2>10, <2>11 DEF LastIsSelected, Wants
<1> QED
  BY <1>2, <1>3 DEF Lists

LEMMA ListStep == ListInv /\ [Next]_vars => ListInv'
<1> SUFFICES ASSUME ListInv, [Next]_vars, Lists' PROVE Numbered' /\ LastIsSelected(sel)'
  BY DEF ListInv
<1>1. mounted' = mounted
  BY DEF Next, Choose, Answered, TimelineDepartment, TimelineEmployee, TimelinePaged, GalleryFilter, GalleryPaged,
         Refresh, Navigate, RosterArrived, GalleryRosterArrived, ListAnswered, DetailAnswered, TypeReason, vars
<1>2. Lists /\ Numbered /\ LastIsSelected(sel)
  BY <1>1 DEF ListInv, Lists
<1>3. ASSUME UNCHANGED <<mounted, sel, flight, sent, shown, applied, overtaken>>
      PROVE  Numbered' /\ LastIsSelected(sel)'
  BY <1>2, <1>3 DEF Numbered, LastIsSelected, Query, Wants
<1>4. CASE \/ \E d \in Dept \cup {All} : TimelineDepartment(d)
           \/ \E e \in Employee : TimelineEmployee(e)
           \/ \E p, s \in Page : TimelinePaged(p, s)
           \/ \E adopts \in BOOLEAN : RosterArrived(adopts)
  <2>1. /\ mounted = "timeline" /\ UNCHANGED <<mounted, shown, applied, overtaken>>
        /\ \E t, here, inFlight : TimelineRender(sel, t, here, inFlight)
    BY <1>4 DEF TimelineDepartment, TimelineEmployee, TimelinePaged, RosterArrived, trace
  <2> QED
    BY <1>2, <2>1, TimelineAsks
<1>5. CASE \/ \E e \in Employee \cup {None}, d \in Dept \cup {All}, r \in Risk : GalleryFilter(e, d, r)
           \/ \E p \in Page : GalleryPaged(p)
           \/ GalleryRosterArrived
  <2>1. /\ mounted = "gallery" /\ UNCHANGED <<mounted, shown, applied, overtaken>>
        /\ \E t, here : GalleryRender(sel, t, here)
    BY <1>5 DEF GalleryFilter, GalleryPaged, GalleryRosterArrived, trace
  <2> QED
    BY <1>2, <2>1, GalleryAsks
<1>6. CASE Refresh
  <2>1. Request(<<Query(sel)>>) /\ UNCHANGED <<mounted, sel, shown, applied, overtaken>>
    BY <1>2, <1>6 DEF Refresh, Lists, Query, trace
  <2>2. Numbered' /\ \E f \in flight' : f.id = sent' /\ f.q = Query(sel)
    BY <1>2, <2>1, LastAsked
  <2>3. Query(sel)' = Query(sel)
    BY <2>1 DEF Query
  <2> QED
    BY <2>2, <2>3 DEF LastIsSelected
<1>7. CASE \E f \in flight, live \in BOOLEAN : ListAnswered(f, live)
  BY <1>2, <1>7, ListIsAnswered
<1>8. CASE (\E shot \in Shot : Navigate(shot)) \/ (\E f \in flight, found, live \in BOOLEAN : DetailAnswered(f, found, live)) \/ TypeReason
  BY <1>2, <1>8 DEF Navigate, DetailAnswered, TypeReason, Lists
<1>9. CASE SettleImage /\ UNCHANGED <<mounted, list, trace, reason, detail>>
  BY <1>3, <1>9 DEF list, trace
<1>10. CASE UNCHANGED vars
  BY <1>3, <1>10 DEF vars, list, trace
<1> QED
  BY <1>4, <1>5, <1>6, <1>7, <1>8, <1>9, <1>10 DEF Next, Choose, Answered

\* Once every request of the timeline or the gallery is answered, what is shown is
\* for the present selection unless an older answer was applied after a newer one,
\* however many requests the effects sent for selections that the next one replaced.
THEOREM SettledListCorrect == Spec => []SettledListIsSelected
<1>1. ListInv => SettledListIsSelected
  BY DEF ListInv, Lists, LastIsSelected, Wants, Query, SettledListIsSelected
<1> QED
  BY <1>1, ListInit, ListStep, PTL DEF Spec

-----------------------------------------------------------------------------
(* The comparison *)

LEMMA OwnerOf ==
  ASSUME NEW e \in Employee, NEW i \in DOMAIN Shots[e]
  PROVE  Shots[e][i] \in Shot /\ Shots[e][i] # None /\ Owner(Shots[e][i]) = e /\ IndexIn(Shots[e], Shots[e][i]) = i
<1>1. Shots[e][i] \in Shot /\ Shots[e][i] # None
  BY ShotsAssumption DEF Shot
<1>2. Owner(Shots[e][i]) = e
  BY ShotsAssumption DEF Owner
<1>3. IndexIn(Shots[e], Shots[e][i]) = i
  BY ShotsAssumption DEF IndexIn
<1> QED
  BY <1>1, <1>2, <1>3

LEMMA ShotPlaced ==
  ASSUME NEW shot \in Shot
  PROVE  Owner(shot) \in Employee /\ \E i \in DOMAIN Shots[Owner(shot)] : Shots[Owner(shot)][i] = shot
<1>1. \E e \in Employee : \E i \in DOMAIN Shots[e] : Shots[e][i] = shot
  BY DEF Shot
<1> QED
  BY <1>1 DEF Owner

\* The first page of a timeline.
LEMMA FirstPageOf ==
  ASSUME NEW e \in Employee
  PROVE  LET rows == FirstRows(Shots[e]) IN
           /\ Len(Shots[e]) \in Nat /\ DOMAIN Shots[e] = 1 .. Len(Shots[e])
           /\ Len(rows) \in Nat /\ DOMAIN rows = 1 .. Len(rows)
           /\ Len(rows) = IF Len(Shots[e]) < Limit THEN Len(Shots[e]) ELSE Limit
           /\ \A i \in 1 .. Len(rows) : rows[i] = Shots[e][i] /\ IndexIn(rows, rows[i]) = i
           /\ rows # <<>> => Len(rows) > 0
<1> DEFINE s == Shots[e]
           n == IF Len(s) < Limit THEN Len(s) ELSE Limit
           rows == FirstRows(s)
<1>1. s \in Seq(Shot) /\ Limit \in Nat \ {0} /\ Len(s) \in Nat /\ DOMAIN s = 1 .. Len(s)
  BY ShotsAssumption
<1>2. n \in Nat /\ n <= Len(s)
  BY <1>1
<1>3. rows = SubSeq(s, 1, n)
  BY DEF FirstRows
<1> HIDE DEF n, s, rows
<1>4. Len(rows) = n /\ DOMAIN rows = 1 .. n /\ rows \in Seq(Shot) /\ \A i \in 1 .. n : rows[i] = s[i]
  BY <1>1, <1>2, <1>3
<1>5. \A i \in 1 .. n, j \in 1 .. n : s[i] = s[j] => i = j
  BY <1>1, <1>2, ShotsAssumption DEF s
<1>6. \A i \in 1 .. n : IndexIn(rows, rows[i]) = i
  BY <1>4, <1>5 DEF IndexIn
<1>7. rows # <<>> => Len(rows) > 0
  BY <1>2, <1>4
<1> QED
  BY <1>1, <1>2, <1>4, <1>6, <1>7 DEF n, s, rows

\* What a comparison of the detail page compares.
Neighbours(d) ==
  LET rows == Shots[Owner(d.current)]
      i == IndexIn(rows, d.current)
  IN d.current # NoShot =>
       /\ d.found => d.current = d.asked
       /\ d.previous # NoShot => i < Len(rows) /\ d.previous = rows[i + 1]
       /\ d.live /\ d.previous = NoShot => i = Len(rows) \/ i >= Limit

LEMMA ComparisonCompares ==
  ASSUME NEW shot \in Shot, NEW emp \in Employee \cup {None}, NEW found \in BOOLEAN, NEW live \in BOOLEAN
  PROVE  Neighbours(Comparison(shot, emp, found, live))
<1> DEFINE e == IF found THEN Owner(shot) ELSE IF emp = None THEN Discovered ELSE emp
           rows == IF live THEN FirstRows(Shots[e]) ELSE <<>>
           current == IF found \/ Among(shot, rows) THEN shot ELSE IF rows # <<>> THEN rows[1] ELSE NoShot
           before == IF Among(current, rows) /\ IndexIn(rows, current) < Len(rows)
                     THEN rows[IndexIn(rows, current) + 1] ELSE NoShot
           d == Comparison(shot, emp, found, live)
           all == Shots[Owner(current)]
           i == IndexIn(all, current)
<1>1. d.asked = shot /\ d.found = found /\ d.live = live /\ d.current = current /\ d.previous = before
  BY DEF Comparison
<1>2. e \in Employee
  BY ShotPlaced, ShotsAssumption
<1>3. found => current = shot
  OBVIOUS
<1>4. ASSUME current # NoShot
      PROVE  /\ before # NoShot => i < Len(all) /\ before = all[i + 1]
             /\ live /\ before = NoShot => i = Len(all) \/ i >= Limit
  <2> DEFINE page == FirstRows(Shots[e])
  <2>1. /\ Len(Shots[e]) \in Nat /\ DOMAIN Shots[e] = 1 .. Len(Shots[e])
        /\ Len(page) \in Nat /\ DOMAIN page = 1 .. Len(page)
        /\ Len(page) = IF Len(Shots[e]) < Limit THEN Len(Shots[e]) ELSE Limit
        /\ \A k \in 1 .. Len(page) : page[k] = Shots[e][k] /\ IndexIn(page, page[k]) = k
        /\ page # <<>> => Len(page) > 0
    BY <1>2, FirstPageOf
  <2>2. CASE ~ live
    <3>1. ~ Among(current, rows)
      BY <2>2 DEF Among
    <3> QED
      BY <2>2, <3>1
  <2>3. CASE live /\ Among(current, page)
    <3>1. rows = page
      BY <2>3
    <3> HIDE DEF e, page, rows, current
    <3>2. PICK k \in 1 .. Len(page) : page[k] = current
      BY <2>1, <2>3 DEF Among
    <3>3. Shots[e][k] = current /\ IndexIn(page, current) = k /\ k \in DOMAIN Shots[e] /\ k <= Len(page)
      BY <2>1, <3>2, ShotsAssumption
    <3>4. Owner(current) = e /\ i = k
      BY <1>2, <3>3, OwnerOf
    <3>5. CASE k < Len(page)
      <4>1. before = page[k + 1]
        BY <2>3, <3>1, <3>3, <3>5
      <4>2. page[k + 1] = Shots[e][k + 1] /\ k + 1 \in DOMAIN Shots[e]
        BY <2>1, <3>5, ShotsAssumption
      <4>3. Shots[e][k + 1] # NoShot
        BY <1>2, <4>2, OwnerOf DEF NoShot
      <4>4. k < Len(Shots[e])
        BY <2>1, <3>5, ShotsAssumption
      <4> QED
        BY <3>4, <4>1, <4>2, <4>3, <4>4
    <3>6. CASE k = Len(page)
      <4>1. before = NoShot
        BY <3>1, <3>3, <3>6
      <4>2. k = Len(Shots[e]) \/ k >= Limit
        BY <2>1, <3>6, ShotsAssumption
      <4> QED
        BY <3>4, <4>1, <4>2
    <3> QED
      BY <2>1, <3>2, <3>5, <3>6
  <2>4. CASE live /\ ~ Among(current, page)
    <3>1. before = NoShot
      BY <2>4
    <3>2. found /\ current = shot /\ e = Owner(shot)
      <4>1. ASSUME ~ found PROVE FALSE
        <5>1. CASE Among(shot, page)
          BY <2>4, <5>1
        <5>2. CASE ~ Among(shot, page)
          <6>1. page # <<>> /\ current = page[1]
            BY <1>4, <2>4, <4>1, <5>2
          <6>2. 1 \in DOMAIN page
            BY <2>1, <6>1
          <6> QED
            BY <2>4, <6>1, <6>2 DEF Among
        <5> QED
          BY <5>1, <5>2
      <4> QED
        BY <4>1
    <3>3. PICK k \in DOMAIN Shots[e] : Shots[e][k] = shot
      BY <3>2, ShotPlaced
    <3> HIDE DEF e, page, rows, current, before
    <3>4. i = k
      BY <1>2, <3>2, <3>3, OwnerOf
    <3>5. k > Len(page)
      <4>1. k \in 1 .. Len(page) => FALSE
        BY <2>1, <2>4, <3>2, <3>3 DEF Among
      <4> QED
        BY <2>1, <3>3, <4>1
    <3>6. k >= Limit
      BY <2>1, <3>3, <3>5, ShotsAssumption
    <3> QED
      BY <3>1, <3>4, <3>6
  <2> QED
    BY <2>2, <2>3, <2>4
<1> HIDE DEF d, current, before
<1>5. Neighbours(d)
  BY <1>1, <1>3, <1>4 DEF Neighbours
<1> QED
  BY <1>5 DEF d

CompareInv ==
  /\ Neighbours(detail)
  /\ mounted = "detail" => \A f \in flight : f.q.shot \in Shot /\ f.q.emp \in Employee \cup {None}

LEMMA CompareInit == Init => CompareInv
<1> SUFFICES ASSUME Init PROVE CompareInv
  OBVIOUS
<1>1. Neighbours(detail)
  BY DEF Init, NoDetail, Neighbours
<1>2. ASSUME mounted = "detail", NEW f \in flight PROVE f.q.shot \in Shot /\ f.q.emp \in Employee \cup {None}
  <2>1. PICK shot \in Shot, e \in Employee \cup {None} : OpenDetail(shot, e)
    BY <1>2, ShotPlaced DEF Init
  <2>2. f.q = sel /\ sel = [shot |-> shot, emp |-> e]
    BY <1>2, <2>1 DEF OpenDetail
  <2> QED
    BY <2>2
<1> QED
  BY <1>1, <1>2 DEF CompareInv

LEMMA CompareStep == RequestsAreDated /\ CompareInv /\ [Next]_vars => CompareInv'
<1> SUFFICES ASSUME RequestsAreDated, CompareInv, [Next]_vars PROVE CompareInv'
  OBVIOUS
<1>1. ASSUME detail' = detail PROVE Neighbours(detail')
  BY <1>1 DEF CompareInv
<1>2. CASE mounted # "detail"
  <2>1. mounted' = mounted /\ detail' = detail
    BY <1>2 DEF Next, Choose, Answered, TimelineDepartment, TimelineEmployee, TimelinePaged, GalleryFilter, GalleryPaged,
           Refresh, Navigate, RosterArrived, GalleryRosterArrived, ListAnswered, DetailAnswered, TypeReason, vars
  <2> QED
    BY <1>1, <1>2, <2>1 DEF CompareInv
<1>3. ASSUME NEW shot \in Shot, Navigate(shot) PROVE CompareInv'
  <2> DEFINE s == [shot |-> shot, emp |-> Owner(shot)]
             g == [id |-> sent + 1, q |-> s]
  <2>1. flight' = flight \cup {g} /\ detail' = detail /\ mounted = "detail"
    BY <1>3, NavigateAsks DEF Navigate
  <2>2. g.q.shot \in Shot /\ g.q.emp \in Employee \cup {None}
    BY ShotPlaced
  <2> HIDE DEF g
  <2> QED
    BY <1>1, <2>1, <2>2 DEF CompareInv
<1>4. ASSUME NEW f \in flight, NEW found \in BOOLEAN, NEW live \in BOOLEAN, DetailAnswered(f, found, live)
      PROVE  CompareInv'
  <2>1. /\ mounted = "detail" /\ flight' = flight \ {f}
        /\ detail' = detail \/ detail' = Comparison(f.q.shot, f.q.emp, found, live)
    BY <1>4 DEF DetailAnswered
  <2>2. Neighbours(Comparison(f.q.shot, f.q.emp, found, live))
    BY <2>1, ComparisonCompares DEF CompareInv
  <2> QED
    BY <1>1, <2>1, <2>2 DEF CompareInv
<1>5. ASSUME UNCHANGED <<mounted, flight, detail>> PROVE CompareInv'
  BY <1>1, <1>5 DEF CompareInv
<1>6. CASE TypeReason \/ (SettleImage /\ UNCHANGED <<mounted, list, trace, reason, detail>>) \/ UNCHANGED vars
  BY <1>5, <1>6 DEF TypeReason, vars, list
<1>7. CASE mounted = "detail" /\ (Choose \/ Answered)
  BY <1>3, <1>4, <1>7 DEF Choose, Answered, TimelineDepartment, TimelineEmployee, TimelinePaged, GalleryFilter,
         GalleryPaged, Refresh, RosterArrived, GalleryRosterArrived, ListAnswered
<1> QED
  BY <1>2, <1>6, <1>7 DEF Next

\* The detail page compares a screenshot with the next older one of the same
\* employee, and with none only for the oldest one, beyond the first page or when
\* the timeline was not read, for any timelines and any size of the page.
THEOREM NeighboursCorrect == Spec => []ComparesNeighbours
<1>1. CompareInv => ComparesNeighbours
  BY DEF CompareInv, Neighbours, ComparesNeighbours
<1> QED
  BY <1>1, DatedInit, DetailStep, CompareInit, CompareStep, PTL DEF Spec
==============================================================================
