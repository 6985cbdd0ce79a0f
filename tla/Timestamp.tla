----------------------------- MODULE Timestamp -----------------------------
(***************************************************************************)
(* Trusted time stamps (CORE/timestamp.py, CORE/timestamp_verify.py): the  *)
(* digests of some encrypted files go, one by one or as the root of a      *)
(* Merkle tree, to an authority, and its token is attached to each file as *)
(* a trailer outside of the encrypted body.                                *)
(*                                                                         *)
(* A call reads the files, waits for the authority and writes the files;   *)
(* nothing keeps a check-in or another call away from them meanwhile.  A   *)
(* text is a number, and its digest; the trailer is protected by nothing   *)
(* but what verify_timestamp() compares.                                   *)
(***************************************************************************)
EXTENDS Integers, FiniteSets, SequencesExt, Merkle

CONSTANTS
    Files,      \* encrypted files
    Calls,      \* calls of timestamp_file() and timestamp_batch() that may overlap
    Anchors,    \* certificates a token's chain may end in
    Kinds,      \* of calls: among "file", "batch" and "anchored"
    MaxBatch,   \* bound: files of a call
    MaxText,    \* bound: texts ever written
    MaxTokens,  \* bound: tokens ever issued
    MaxAltered  \* bound: trailers that change hands

VARIABLES
    file,       \* the text of each file, its trailers, and bytes of half a trailer
    written,    \* texts written so far
    call,       \* each call: what it does next, its files, their digests, its token
    tmp,        \* the copy under way next to each file, if there is one
    issued,     \* the number of tokens, and of trailers altered
    altered,
    twice       \* files that got a trailer, or a second call, while a call had them in hand

vars == <<file, written, call, tmp, issued, altered, twice>>

Contents == 1..MaxText
\* What verify_token() can tell of a token: what is signed, whether signature, key
\* usage, validity and chain hold, where the chain ends.  before: texts written by then.
Tokenless == [imprint |-> <<>>, sound |-> FALSE, anchor |-> CHOOSE a \in Anchors : TRUE, before |-> 0]
Idle == [at |-> "off", kind |-> "file", list |-> <<>>, hashed |-> <<>>, token |-> Tokenless, next |-> 1]
Plain(text) == [text |-> text, trailers |-> <<>>, torn |-> FALSE]

TypeOK ==
    /\ \A f \in Files : file[f].text \in 1..written /\ file[f].torn \in BOOLEAN
    /\ written \in Contents
    /\ \A c \in Calls : call[c].at \in {"off", "digest", "request", "copy", "replace"} /\ call[c].list \in Seq(Files)
    /\ \A f \in Files : Cardinality(tmp[f]) <= 1
    /\ issued \in 0..MaxTokens /\ altered \in 0..MaxAltered
    /\ twice \subseteq Files

Init ==
    /\ file = [f \in Files |-> Plain(1)] /\ written = 1
    /\ call = [c \in Calls |-> Idle] /\ tmp = [f \in Files |-> {}]
    /\ issued = 0 /\ altered = 0
    /\ twice = {}

Digest(text) == <<"sha256", text>>
Goto(c, place) == call' = [call EXCEPT ![c].at = place]
End(c) == call' = [call EXCEPT ![c] = Idle]
Hand(c) == {call[c].list[i] : i \in DOMAIN call[c].list}

(***************************************************************************)
(* Reading a file.                                                         *)
(***************************************************************************)
\* read_trailer() goes back from the end of the file to the last trailer, if that is
\* a whole one; what lies before it is the body.
read_trailer(f) == IF file[f].torn \/ file[f].trailers = <<>> THEN {} ELSE {Last(file[f].trailers)}
\* The body must be nothing but the ciphertext and its tag.
verify_file(f) == ~file[f].torn /\ Len(file[f].trailers) <= 1

(***************************************************************************)
(* timestamp_batch(), and timestamp_file() as the call without a tree.     *)
(***************************************************************************)
Batches == UNION {[1..n -> Files] : n \in 1..MaxBatch}

\* Refused when one of the files has a stamp, or is named twice.
timestamp_batch(c, kind, list) ==
    /\ call[c].at = "off" /\ (kind = "file" => Len(list) = 1)
    /\ \A i, j \in DOMAIN list : i # j => list[i] # list[j]
    /\ \A i \in DOMAIN list : read_trailer(list[i]) = {}
    /\ call' = [call EXCEPT ![c] = [Idle EXCEPT !.at = "digest", !.kind = kind, !.list = list]]
    /\ twice' = twice \cup {list[i] : i \in {j \in DOMAIN list : \E d \in Calls \ {c} : list[j] \in Hand(d)}}
    /\ UNCHANGED <<file, written, tmp, issued, altered>>

\* file_digest() of the next file, which must open.
file_digest(c) ==
    /\ call[c].at = "digest"
    /\ LET f == call[c].list[Len(call[c].hashed) + 1]
           hashed == Append(call[c].hashed, Digest(file[f].text))
       IN  IF verify_file(f)
           THEN call' = [call EXCEPT ![c].hashed = hashed,
                            ![c].at = IF Len(hashed) = Len(call[c].list) THEN "request" ELSE "digest"]
           ELSE End(c)
    /\ UNCHANGED <<file, written, tmp, issued, altered, twice>>

\* The entry of the log is the last leaf; it is labelled, and the digest of no file.
anchor_leaf_payload == <<"anchor">>
Payloads(c) == call[c].hashed \o (IF call[c].kind = "anchored" THEN <<anchor_leaf_payload>> ELSE <<>>)
Tree(c) == build_tree(build_leaves(Payloads(c)))
\* What the authority is asked to sign.
build_request(c) == IF call[c].kind = "file" THEN call[c].hashed[1] ELSE root(Tree(c))

\* An answer with the imprint, the nonce and a certificate is taken, and its
\* signature is not looked at.  (Where one that does not hold ends is of no account.)
request_token(c) ==
    /\ call[c].at = "request" /\ issued < MaxTokens
    /\ \E sound \in BOOLEAN, anchor \in Anchors :
        /\ sound \/ anchor = Tokenless.anchor
        /\ call' = [call EXCEPT ![c].at = "copy",
                       ![c].token = [imprint |-> build_request(c), sound |-> sound, anchor |-> anchor, before |-> written]]
    /\ issued' = issued + 1
    /\ UNCHANGED <<file, written, tmp, altered, twice>>

\* No answer in time, a refusal, or one that does not fit the request.
parse_response(c) ==
    /\ call[c].at = "request"
    /\ End(c)
    /\ UNCHANGED <<file, written, tmp, issued, altered, twice>>

Trailer(c) ==
    LET i == call[c].next IN
    [hashed |-> call[c].hashed[i], token |-> call[c].token,
     path |-> IF call[c].kind = "file" THEN {} ELSE {[top |-> root(Tree(c)), proof |-> proof(Tree(c), i - 1)]}]

\* Mutant: the trailer is appended where the file stands, and a crash tears it.
AppendInPlace(c) ==
    /\ call[c].at = "copy"
    /\ LET f == call[c].list[call[c].next] IN
        /\ Goto(c, "replace")
        /\ tmp' = [tmp EXCEPT ![f] = {[file[f] EXCEPT !.trailers = Append(@, Trailer(c))]}]
        /\ file' = [file EXCEPT ![f].torn = TRUE]
    /\ UNCHANGED <<written, issued, altered, twice>>
\* attach_trailer(): the file as it is by now is copied and the copy gets the trailer;
\* its name is made of the file's, so two calls write to the same one.
attach_trailer(c) ==
    /\ call[c].at = "copy"
    /\ LET f == call[c].list[call[c].next] IN
        tmp' = [tmp EXCEPT ![f] = {[file[f] EXCEPT !.trailers = Append(@, Trailer(c))]}]
    /\ Goto(c, "replace")
    /\ UNCHANGED <<file, written, issued, altered, twice>>

\* Then the copy takes the place of the file, in one step, if it is still there; a
\* copy that fails is removed and the next file is taken.
Advance(c) ==
    IF call[c].next = Len(call[c].list) THEN End(c)
    ELSE call' = [call EXCEPT ![c].at = "copy", ![c].next = @ + 1]
Replace(c) ==
    /\ call[c].at = "replace"
    /\ LET f == call[c].list[call[c].next] IN
        /\ \E t \in tmp[f] : file' = [file EXCEPT ![f] = t]
        /\ tmp' = [tmp EXCEPT ![f] = {}]
    /\ Advance(c)
    /\ UNCHANGED <<written, issued, altered, twice>>
AttachFails(c) ==
    /\ call[c].at \in {"copy", "replace"}
    /\ tmp' = [tmp EXCEPT ![call[c].list[call[c].next]] = {}]
    /\ Advance(c)
    /\ UNCHANGED <<file, written, issued, altered, twice>>

(***************************************************************************)
(* Around it.                                                              *)
(***************************************************************************)
\* A check-in encrypts a new text and replaces the file, its trailer included.
CheckIn(f) ==
    /\ written < MaxText
    /\ written' = written + 1
    /\ file' = [file EXCEPT ![f] = Plain(written')]
    /\ UNCHANGED <<call, tmp, issued, altered, twice>>

\* A trailer ends up on another file, its own field of the digest made to fit or not.
Graft(f, g) ==
    /\ altered < MaxAltered /\ verify_file(f)
    /\ \E t \in read_trailer(g), hashed \in {Digest(file[f].text), Digest(file[g].text)} :
        file' = [file EXCEPT ![f].trailers = <<[t EXCEPT !.hashed = hashed]>>]
    /\ altered' = altered + 1
    /\ twice' = twice \cup {h \in {f} : \E c \in Calls : h \in Hand(c)}
    /\ UNCHANGED <<written, call, tmp, issued>>

\* The process ends.  A copy under way stays behind, to be overwritten by the next one.
Crash ==
    /\ \E c \in Calls : call[c].at # "off"
    /\ call' = [c \in Calls |-> Idle] /\ tmp' = [f \in Files |-> {}]
    /\ UNCHANGED <<file, written, issued, altered, twice>>

Next ==
    \/ \E c \in Calls : \/ \E kind \in Kinds, list \in Batches : timestamp_batch(c, kind, list)
                        \/ file_digest(c) \/ request_token(c) \/ parse_response(c)
                        \/ attach_trailer(c) \/ Replace(c) \/ AttachFails(c)
    \/ \E f \in Files : CheckIn(f) \/ \E g \in Files \ {f} : Graft(f, g)
    \/ Crash

Spec == Init /\ [][Next]_vars

(***************************************************************************)
(* verify_timestamp().                                                     *)
(***************************************************************************)
verify_merkle_path(t) == \A p \in t.path : verify_proof(leaf_hash(t.hashed), p.proof, p.top)
\* The signer is among the certificates, and the signature holds from there up the chain.
Sound(t) == t.token.sound
\* The end of the chain is compared where certificates to compare it with are given.
verify_token(t, expected, trusted_roots) ==
    /\ t.token.imprint = expected /\ Sound(t)
    /\ trusted_roots # {} => t.token.anchor \in trusted_roots
\* What the token must sign: the root of a batch, else the digest itself.
Expected(t) == IF t.path = {} THEN t.hashed ELSE (CHOOSE p \in t.path : TRUE).top
\* Mutant: the path is taken at its word.
PathUnread(f, trusted_roots) ==
    \E t \in read_trailer(f) :
        verify_file(f) /\ t.hashed = Digest(file[f].text) /\ verify_token(t, Expected(t), trusted_roots)
verify_timestamp(f, trusted_roots) ==
    \E t \in read_trailer(f) :
        /\ verify_file(f)
        /\ t.hashed = Digest(file[f].text)
        /\ verify_merkle_path(t)
        /\ verify_token(t, Expected(t), trusted_roots)

\* The roots of the settings; none when the setting cannot be read, as if none had been
\* added.  The window asks with them, whoever stored the file.
Settings == SUBSET Anchors \cup {{"unreadable"}}
der_listesi(setting) == IF setting \subseteq Anchors THEN setting ELSE {}
_on_ctx_verify_timestamp(f, setting) == verify_timestamp(f, der_listesi(setting))

-----------------------------------------------------------------------------
\* A stamp that verifies says the truth: the text of the file was written before an
\* authority signed whose chain ends in a root of the settings, where there are any;
\* although files change while it is asked, calls are cut short between two files, and
\* trailers change hands.
ValidMeansEarlier ==
    \A f \in Files, setting \in Settings : _on_ctx_verify_timestamp(f, setting) =>
        \A t \in read_trailer(f) :
            /\ Sound(t) /\ file[f].text <= t.token.before
            /\ setting \in (SUBSET Anchors) \ {{}} => t.token.anchor \in setting

\* attach_trailer() never appends in place: wherever a call is cut short, a file opens.
\* Two calls that have one file in hand give it two trailers, and it opens no more.
StampedFileOpens == \A f \in Files \ twice : verify_file(f)

\* The one without the exception, which the code does not keep: attach_trailer() does
\* not ask again whether there is a stamp.
EveryFileOpens == \A f \in Files : verify_file(f)
=============================================================================
