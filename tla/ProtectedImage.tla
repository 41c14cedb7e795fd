---------------------------- MODULE ProtectedImage ----------------------------
(***************************************************************************)
(* ProtectedScreenshotImage: the component that fetches a screenshot with  *)
(* the bearer token, wraps it in an object URL and must revoke that URL    *)
(* when its image or the access reason changes.  Each run of its effect is *)
(* numbered; the number also names the object URL that the run creates.    *)
(***************************************************************************)
EXTENDS Naturals

CONSTANTS
  Uri,          \* addresses of images
  NoUri,        \* the API returned metadata only
  ApiUri        \* the addresses under /api/screenshots/, which need a reason

ASSUME UriAssumption == NoUri \notin Uri /\ ApiUri \subseteq Uri

VARIABLES
  props,        \* [uri, reason given?]
  asset,        \* [state, src]: what is rendered
  effect,       \* number of the effect run that is active
  fetches,      \* the runs whose fetch has not settled: [run, uri]
  objectUrls    \* the object URLs created and not revoked

image == <<props, asset, effect, fetches, objectUrls>>

NoSrc == [run |-> 0, uri |-> NoUri]

\* buildInitialState
InitialState(p) ==
  CASE p.uri = NoUri -> "missing"
    [] p.uri \in ApiUri /\ ~ p.reason -> "need_reason"
    [] OTHER -> "idle"

\* resolveErrorState, by the status of the answer.
ErrorState(status) ==
  CASE status = 404 -> "retention_deleted"
    [] status = 400 -> "need_reason"
    [] status \in {401, 403} -> "forbidden"
    [] OTHER -> "error"

\* The component is mounted with the properties p.
ImageInit(p) ==
  /\ props = p
  /\ asset = [state |-> InitialState(p), src |-> NoSrc]
  /\ effect = 0
  /\ fetches = {}
  /\ objectUrls = {}

\* Mutant of RunEffect: the cleanup does not revoke.
RunEffectKeepUrl(p) ==
  LET run == effect + 1
      first == InitialState(p)
  IN /\ props' = p
     /\ effect' = run
     /\ UNCHANGED objectUrls
     /\ asset' =
          CASE first # "idle" -> [state |-> first, src |-> NoSrc]
            [] first = "idle" /\ p.uri \notin ApiUri -> [state |-> "ready", src |-> [run |-> 0, uri |-> p.uri]]
            [] OTHER -> [state |-> "loading", src |-> NoSrc]
     /\ fetches' = IF asset'.state = "loading" THEN fetches \cup {[run |-> run, uri |-> p.uri]} ELSE fetches

\* The cleanup of the last run, then the effect for the new properties.
RunEffect(p) ==
  LET run == effect + 1
      first == InitialState(p)
  IN /\ props' = p
     /\ effect' = run
     /\ objectUrls' = objectUrls \ {effect}
     /\ asset' =
          CASE first # "idle" -> [state |-> first, src |-> NoSrc]
            [] first = "idle" /\ p.uri \notin ApiUri -> [state |-> "ready", src |-> [run |-> 0, uri |-> p.uri]]
            [] OTHER -> [state |-> "loading", src |-> NoSrc]
     /\ fetches' = IF asset'.state = "loading" THEN fetches \cup {[run |-> run, uri |-> p.uri]} ELSE fetches

\* Mutant of FetchSettled: a run that was cleaned up revokes its URL and shows it.
FetchSettledStale(f, answer) ==
  /\ f \in fetches
  /\ fetches' = fetches \ {f}
  /\ IF answer = 200
     THEN /\ asset' = [state |-> "ready", src |-> f]
          /\ objectUrls' = IF f.run = effect THEN objectUrls \cup {f.run} ELSE objectUrls
     ELSE /\ asset' = [state |-> ErrorState(answer), src |-> NoSrc]
          /\ UNCHANGED objectUrls
  /\ UNCHANGED <<props, effect>>

\* The fetch of a run settles.  After its cleanup the URL is revoked at once.
FetchSettled(f, answer) ==
  /\ f \in fetches
  /\ fetches' = fetches \ {f}
  /\ IF f.run # effect THEN UNCHANGED <<asset, objectUrls>>
     ELSE IF answer = 200
     THEN /\ asset' = [state |-> "ready", src |-> f]
          /\ objectUrls' = objectUrls \cup {f.run}
     ELSE /\ asset' = [state |-> ErrorState(answer), src |-> NoSrc]
          /\ UNCHANGED objectUrls
  /\ UNCHANGED <<props, effect>>

Statuses == {200, 400, 401, 403, 404, 500}
SettleImage == \E f \in fetches, answer \in Statuses : FetchSettled(f, answer)

-----------------------------------------------------------------------------
\* At most the URL of the active run is held: none leaks, however the
\* properties change while fetches are running.
NoObjectUrlLeaks == objectUrls \subseteq {effect}

\* The image that is shown is the one of the present properties, and its object
\* URL has not been revoked.
ShownImageIsCurrent ==
  asset.state = "ready" =>
    /\ asset.src.uri = props.uri
    /\ props.uri \in ApiUri => props.reason /\ asset.src.run \in objectUrls
==============================================================================
