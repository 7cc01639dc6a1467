-------------------------------- MODULE Oidc --------------------------------
(* Bearer tokens of an organisation's identity provider: src/mcp/oidc.ts.   *)
(* The issuer's signing keys are found through its discovery document, in   *)
(* one reading that the requests of the moment share; a failed reading is   *)
(* forgotten, so a later request tries again.                               *)
EXTENDS Naturals, FiniteSets

CONSTANTS OiCallers,
          OiOptions,     \* the options a server may be started with
          OiTokens,      \* the tokens requests bring
          OiDocuments,   \* what the issuer's discovery may answer
          OiMaxChanges   \* bound: how often that changes

VARIABLES oiOptions,  \* those of this server, once they were found sound
          oiIssuer,   \* what discovery would answer now
          oiKeys,     \* none, being read, or held with where they came from
          oiCall,     \* what each request's verification is doing
          oiChanges

oiVars == <<oiOptions, oiIssuer, oiKeys, oiCall, oiChanges>>

OiFree == [at |-> "free"]
NoKeys == [at |-> "none"]

\* fetchable(): whoever answers decides which signatures verify.
Fetchable(scheme) == scheme \in {"https", "loopback"}

\* assertOptions(): the keys given, or fetched from where they may be.
SoundOptions(o) ==
  /\ o.audiences # {} /\ o.algorithms # {} /\ o.algorithms \subseteq {"asymmetric"}
  /\ o.keys # "given" => Fetchable(o.scheme)
  /\ o.skew \in 0 .. 300

HeldFrom(scheme, names) == [at |-> "held", scheme |-> scheme, names |-> names]

OiInit ==
  /\ oiOptions \in {o \in OiOptions : SoundOptions(o)}
  /\ oiIssuer \in OiDocuments
  /\ oiKeys = IF oiOptions.keys = "discovered" THEN NoKeys ELSE HeldFrom(oiOptions.scheme, "this issuer")
  /\ oiCall = [c \in OiCallers |-> OiFree]
  /\ oiChanges = 0

OiGoes(c, call) == oiCall' = [oiCall EXCEPT ![c] = call]

\* A variant that does not compare the issuer the document names.
UsableByAnyName(doc) == doc.up /\ Fetchable(doc.scheme)

\* The discovery document names this issuer, and where its keys may be
\* fetched from.
Usable(doc) == doc.up /\ doc.names = "this issuer" /\ Fetchable(doc.scheme)

\* jwtVerify(), then the claims that name the actor and the tenant.  The keys
\* of another issuer's document would verify that issuer's tokens.
Accepted(token) ==
  /\ token.signedBy = oiKeys.names /\ token.issuer = "this issuer"
  /\ token.audience \in oiOptions.audiences /\ token.algorithm \in oiOptions.algorithms
  /\ token.expiredFor <= oiOptions.skew
  /\ token.namesActor
  /\ oiOptions.tenanted => token.namesTenant

\* verify(): with no keys yet, the call starts the reading, or joins it.
Verify(c, token) ==
  /\ oiCall[c] = OiFree
  /\ OiGoes(c, [at |-> "waiting", token |-> token, steady |-> oiKeys.at # "reading" /\ Usable(oiIssuer)])
  /\ oiKeys' = IF oiKeys.at = "none" THEN [at |-> "reading", asked |-> oiIssuer] ELSE oiKeys
  /\ UNCHANGED <<oiOptions, oiIssuer, oiChanges>>

\* discover(): the answer is of when it was asked, or of now.
DiscoveryAnswers(doc) ==
  /\ oiKeys.at = "reading" /\ doc \in {oiKeys.asked, oiIssuer}
  /\ IF Usable(doc)
       THEN oiKeys' = HeldFrom(doc.scheme, doc.names) /\ UNCHANGED oiCall
       ELSE /\ oiKeys' = NoKeys
            /\ oiCall' = [c \in OiCallers |->
                            IF oiCall[c].at = "waiting" THEN [oiCall[c] EXCEPT !.at = "refused"] ELSE oiCall[c]]
  /\ UNCHANGED <<oiOptions, oiIssuer, oiChanges>>

\* Whatever went wrong, the caller is told only that it was refused.
Decide(c) ==
  /\ oiCall[c].at = "waiting" /\ oiKeys.at = "held"
  /\ OiGoes(c, [oiCall[c] EXCEPT !.at = IF Accepted(oiCall[c].token) THEN "accepted" ELSE "refused"])
  /\ UNCHANGED <<oiOptions, oiIssuer, oiKeys, oiChanges>>

TakeVerdict(c) ==
  /\ oiCall[c].at \in {"accepted", "refused"}
  /\ OiGoes(c, OiFree)
  /\ UNCHANGED <<oiOptions, oiIssuer, oiKeys, oiChanges>>

\* The issuer is down, comes back, or its document changes.
IssuerChanges(doc) ==
  /\ doc # oiIssuer /\ oiChanges < OiMaxChanges
  /\ oiChanges' = oiChanges + 1
  /\ oiIssuer' = doc
  /\ oiCall' = [c \in OiCallers |-> IF oiCall[c] = OiFree THEN OiFree ELSE [oiCall[c] EXCEPT !.steady = FALSE]]
  /\ UNCHANGED <<oiOptions, oiKeys>>

OiNext ==
  \/ \E c \in OiCallers : (\E token \in OiTokens : Verify(c, token)) \/ Decide(c) \/ TakeVerdict(c)
  \/ \E doc \in OiDocuments : DiscoveryAnswers(doc) \/ IssuerChanges(doc)

\* Discovery answers, or its five seconds end.
OiSpec ==
  /\ OiInit /\ [][OiNext]_oiVars
  /\ WF_oiVars(\E doc \in OiDocuments : DiscoveryAnswers(doc))
  /\ \A c \in OiCallers : WF_oiVars(Decide(c))

----------------------------------------------------------------------------
(* Properties *)

\* The type of the keys and the calls.
OiTypeOK ==
  /\ oiKeys.at \in {"none", "reading", "held"}
  /\ \A c \in OiCallers : oiCall[c].at \in {"free", "waiting", "accepted", "refused"}

\* What the issuer says of a token, whoever may have been believed: signed by
\* the issuer itself, for this server, unexpired, naming who it is for.
Genuine(token) ==
  /\ token.signedBy = "this issuer" /\ token.issuer = "this issuer" /\ token.algorithm = "asymmetric"
  /\ token.audience \in oiOptions.audiences
  /\ token.expiredFor <= 300 /\ token.namesActor /\ (oiOptions.tenanted => token.namesTenant)

\* Only a genuine token is accepted, by keys that came by a way nobody else
\* could answer on (oidc.ts:77-82, 160-165) ...
OnlyGenuineAccepted ==
  \A c \in OiCallers :
    oiCall[c].at = "accepted" => Genuine(oiCall[c].token) /\ (oiOptions.keys # "given" => Fetchable(oiKeys.scheme))

\* ... and one is refused only when there was cause: an issuer that is in
\* order from the start of the call has its tokens accepted, whatever failed
\* before ("A failure is not cached").
RefusedForCause ==
  \A c \in OiCallers :
    oiCall[c].at = "refused" /\ oiCall[c].steady => ~Genuine(oiCall[c].token) \/ oiCall[c].token.expiredFor > oiOptions.skew

\* Every verification ends.
VerdictsCome == \A c \in OiCallers : oiCall[c].at = "waiting" ~> oiCall[c].at # "waiting"
============================================================================
