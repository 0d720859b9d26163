---------------------------- MODULE MCOccRequests ----------------------------
(***************************************************************************)
(* BrowserSsoOcc with the operations that race for a browser's request      *)
(* list: createRequest calls of one binding, and the consumption of a       *)
(* request (issueCode).  A stored request holds Live, the binding the list  *)
(* of request ids; every creator is named by the id it minted.              *)
(***************************************************************************)
EXTENDS BrowserSsoOcc, Sequences, SequencesExt

CONSTANTS Creators, Consumer, Consumed, Live, RequestLimit

MCTxn    == Creators \cup {Consumer}
MCKey    == Creators \cup {"binding"}
MCValue  == {Absent, Live} \cup BoundedSeq(Creators, RequestLimit)
MCAnswer == {"created", "request_limit", "consumed", "rejected"}
MCInitially == {[k \in MCKey |-> Absent]}

\* A binding is kept until the last request it lists has expired.
MCMayExpire(k, d) == k = "binding" => \A r \in Creators : d[r] = Absent

IsList(v) == v \notin {Absent, Live}
Listed(seen) == IF IsList(seen["binding"]) THEN seen["binding"] ELSE <<>>
Pending(seen) == SelectSeq(Listed(seen), LAMBDA r : seen[r] = Live)
AtLimit(seen) == Len(Pending(seen)) >= RequestLimit

\* binding first, then every listed request, then the request to be written.
MCNextKey(t, seen) ==
    LET path == IF t = Consumer THEN <<Consumed>>
                ELSE IF "binding" \notin DOMAIN seen THEN <<"binding">>
                ELSE Listed(seen)
        unread == SelectSeq(path, LAMBDA k : k \notin DOMAIN seen)
    IN  IF unread # <<>> THEN Head(unread)
        ELSE IF t \in Creators /\ t \notin DOMAIN seen /\ ~AtLimit(seen) THEN t
        ELSE Enough

MCEffect(t, seen) ==
    IF t = Consumer THEN IF seen[Consumed] = Live THEN [k \in {Consumed} |-> Absent] ELSE Nothing
    ELSE IF AtLimit(seen) THEN Nothing
    ELSE [k \in {t, "binding"} |-> IF k = t THEN Live ELSE Append(Pending(seen), t)]

MCResult(t, seen) ==
    IF t = Consumer THEN IF seen[Consumed] = Live THEN "consumed" ELSE "rejected"
    ELSE IF AtLimit(seen) THEN "request_limit" ELSE "created"
=============================================================================
