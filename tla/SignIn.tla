-------------------------------- MODULE SignIn --------------------------------
(* The owner's sign-in for remote apps: src/mcp/owner-oauth.ts.               *)
(*                                                                          *)
(* Everything is in one file, which each request reads whole, changes and    *)
(* replaces by a rename, without letting another request in between.  An app *)
(* asks to be let in, the owner gives the passphrase, the app exchanges the  *)
(* code for a pair of tokens and a refresh token for the next pair.  Wrong   *)
(* passphrases lock the app out, and many lock every app out.                *)
EXTENDS Naturals, Sequences, FiniteSets

CONSTANTS OaApps,
          OaPendingTtl, OaCodeTtl, OaAccessTtl, OaRefreshTtl, OaLock,
          OaLockAppAfter, OaLockAllAfter,
          OaMaxClock,    \* bound: the clock
          OaMaxSignIns,  \* bound: sign-ins started
          OaMaxPairs,    \* bound: pairs of tokens issued
          OaMaxLosses    \* bound: reads of the file that fail

VARIABLES oaFile,    \* what the file holds
          oaClock,
          oaSignIns, \* how many sign-ins were started
          oaPairs,   \* how many pairs of tokens were issued, and to which sign-in each
          oaHeld,    \* the tokens an app was given and did not spend or revoke
          oaMisses,  \* when a passphrase was judged and found wrong
          oaLosses   \* how many reads of the file failed and what was in it was overwritten

oaVars == <<oaFile, oaClock, oaSignIns, oaPairs, oaHeld, oaMisses, oaLosses>>

NoMisses == [count |-> 0, lockedUntil |-> 0, until |-> 0]
EmptyFile == [pending |-> {}, codes |-> {}, access |-> {}, refresh |-> {},
              byApp |-> [a \in OaApps |-> NoMisses], recent |-> {}, lockedUntil |-> 0]

\* load(): a file that cannot be read or parsed reads as an empty one.
Loaded == {oaFile} \cup (IF oaLosses < OaMaxLosses THEN {EmptyFile} ELSE {})

Alive(S) == {g \in S : g.until > oaClock}
\* The wrong passphrases of a lock's length; one is told from another of the
\* same instant by its number.
RecentIn(misses) == {m \in misses : m.at + OaLock > oaClock}

\* save(): what expired goes on every write.
Save(from, file) ==
  /\ oaFile' = [file EXCEPT !.pending = Alive(@), !.codes = Alive(@), !.access = Alive(@), !.refresh = Alive(@),
                            !.byApp = [a \in OaApps |-> IF @[a].until > oaClock THEN @[a] ELSE NoMisses],
                            !.recent = RecentIn(@)]
  /\ oaLosses' = IF from = oaFile THEN oaLosses ELSE oaLosses + 1

OaInit ==
  /\ oaFile = EmptyFile
  /\ oaClock = 1
  /\ oaSignIns = 0
  /\ oaPairs = <<>>
  /\ oaHeld = {}
  /\ oaMisses = <<>>
  /\ oaLosses = 0

\* authorize(): the consent page is shown; the app waits.
Authorize(app) ==
  /\ oaSignIns < OaMaxSignIns
  /\ oaSignIns' = oaSignIns + 1
  /\ \E file \in Loaded :
       Save(file, [file EXCEPT !.pending = @ \cup {[id |-> oaSignIns', app |-> app, until |-> oaClock + OaPendingTtl]}])
  /\ UNCHANGED <<oaClock, oaPairs, oaHeld, oaMisses>>

\* consent() reaches the passphrase only for a sign-in that has not expired
\* and an app that is not locked out.
LockedOut(file, app) == file.lockedUntil > oaClock \/ file.byApp[app].lockedUntil > oaClock
\* A variant in which only the app that guessed is locked out.
JudgedByApp(file, p) == p.until > oaClock /\ file.byApp[p.app].lockedUntil <= oaClock

Judged(file, p) == p.until > oaClock /\ ~LockedOut(file, p.app)

Counted(mine) ==
  IF mine.count + 1 >= OaLockAppAfter
    THEN [count |-> 0, lockedUntil |-> oaClock + OaLock, until |-> oaClock + OaLock]
    ELSE [count |-> mine.count + 1, lockedUntil |-> mine.lockedUntil, until |-> oaClock + OaLock]

WrongPassphrase(p) ==
  LET recent == RecentIn(oaFile.recent) \cup {[n |-> Len(oaMisses) + 1, at |-> oaClock]}
      all == Cardinality(recent) >= OaLockAllAfter IN
  /\ Judged(oaFile, p)
  /\ Save(oaFile, [oaFile EXCEPT !.byApp[p.app] = Counted(@),
                                 !.recent = IF all THEN {} ELSE recent,
                                 !.lockedUntil = IF all THEN oaClock + OaLock ELSE @])
  /\ oaMisses' = Append(oaMisses, oaClock)
  /\ UNCHANGED <<oaClock, oaSignIns, oaPairs, oaHeld>>

RightPassphrase(p) ==
  /\ Judged(oaFile, p)
  /\ Save(oaFile, [oaFile EXCEPT !.byApp[p.app] = NoMisses,
                                 !.pending = @ \ {p},
                                 !.codes = @ \cup {[id |-> p.id, app |-> p.app, until |-> oaClock + OaCodeTtl]}])
  /\ UNCHANGED <<oaClock, oaSignIns, oaPairs, oaHeld, oaMisses>>

\* issue(): one pair of tokens, of the same sign-in.
Token(g, is, ttl) == [is |-> is, id |-> g.id, app |-> g.app, pair |-> Len(oaPairs) + 1, until |-> oaClock + ttl]
AccessToken(g) == Token(g, "access", OaAccessTtl)
RefreshToken(g) == Token(g, "refresh", OaRefreshTtl)
Issue(file, g) == [file EXCEPT !.access = @ \cup {AccessToken(g)}, !.refresh = @ \cup {RefreshToken(g)}]

\* exchangeAuthorizationCode(): whoever presents it, a code works once.
ExchangeCode(app, id) ==
  /\ Len(oaPairs) < OaMaxPairs
  /\ \E file \in Loaded, fits \in BOOLEAN :
       LET known == {g \in file.codes : g.id = id}
           rest == [file EXCEPT !.codes = @ \ known]
           good == {g \in known : g.app = app /\ g.until > oaClock /\ fits} IN
       IF good = {}
         THEN Save(file, rest) /\ UNCHANGED <<oaPairs, oaHeld>>
         ELSE \E g \in good :
                /\ Save(file, Issue(rest, g))
                /\ oaPairs' = Append(oaPairs, [id |-> id, by |-> "code"])
                /\ oaHeld' = oaHeld \cup {AccessToken(g), RefreshToken(g)}
  /\ UNCHANGED <<oaClock, oaSignIns, oaMisses>>

\* exchangeRefreshToken(): the token goes, whoever presents it; the app it is
\* of gets the next pair.
ExchangeRefresh(app, held) ==
  /\ held.is = "refresh"
  /\ Len(oaPairs) < OaMaxPairs
  /\ \E file \in Loaded :
       LET rest == [file EXCEPT !.refresh = @ \ {held}] IN
       IF held \in file.refresh /\ held.app = app /\ held.until > oaClock
         THEN /\ Save(file, Issue(rest, held))
              /\ oaPairs' = Append(oaPairs, [id |-> held.id, by |-> "refresh"])
              /\ oaHeld' = (oaHeld \ {held}) \cup {AccessToken(held), RefreshToken(held)}
         ELSE /\ Save(file, rest)
              /\ oaHeld' = oaHeld \ {held}
              /\ UNCHANGED oaPairs
  /\ UNCHANGED <<oaClock, oaSignIns, oaMisses>>

\* revokeToken()
Revoke(held) ==
  /\ \E file \in Loaded :
       Save(file, [file EXCEPT !.access = @ \ {held}, !.refresh = @ \ {held}])
  /\ oaHeld' = oaHeld \ {held}
  /\ UNCHANGED <<oaClock, oaSignIns, oaPairs, oaMisses>>

OaTick ==
  /\ oaClock < OaMaxClock
  /\ oaClock' = oaClock + 1
  /\ UNCHANGED <<oaFile, oaSignIns, oaPairs, oaHeld, oaMisses, oaLosses>>

OaNext ==
  \/ \E app \in OaApps : Authorize(app)
  \/ \E p \in oaFile.pending : WrongPassphrase(p) \/ RightPassphrase(p)
  \/ \E app \in OaApps, id \in 1 .. oaSignIns : ExchangeCode(app, id)
  \/ \E app \in OaApps, held \in oaHeld : ExchangeRefresh(app, held)
  \/ \E held \in oaHeld : Revoke(held)
  \/ OaTick

OaSpec == OaInit /\ [][OaNext]_oaVars

----------------------------------------------------------------------------
(* Properties *)

\* verifyAccessToken(), and what an exchange accepts.
Accepts(held) ==
  /\ held.until > oaClock
  /\ held \in (IF held.is = "access" THEN oaFile.access ELSE oaFile.refresh)

\* The type of the model's state.
OaTypeOK ==
  /\ \A g \in oaFile.pending \cup oaFile.codes : g.app \in OaApps /\ g.id \in 1 .. oaSignIns
  /\ \A g \in oaFile.access \cup oaFile.refresh : g.pair \in DOMAIN oaPairs /\ oaPairs[g.pair].id = g.id
  /\ oaLosses \in 0 .. OaMaxLosses

\* In no lock's length of time are more wrong passphrases judged than lock
\* every app out, whichever apps they came through and however many sign-ins
\* were started and given up (owner-oauth.ts:221-223).
GuessesAreLimited ==
  oaLosses = 0 =>
    \A now \in 1 .. oaClock :
      Cardinality({i \in DOMAIN oaMisses : oaMisses[i] <= now /\ now < oaMisses[i] + OaLock}) <= OaLockAllAfter

\* A sign-in is one line of tokens: its code was exchanged once at most, and at
\* most one refresh token of it works, whatever was retried, presented by
\* another app or lost with the file (owner-oauth.ts:302-303, 315).
OneLineOfTokens ==
  /\ \A i, j \in DOMAIN oaPairs : oaPairs[i].by = "code" /\ oaPairs[j].by = "code" /\ oaPairs[i].id = oaPairs[j].id => i = j
  /\ \A g, h \in oaFile.refresh : g.id = h.id => g = h

\* A token an app was given works until it is spent, revoked or expires: no
\* other app's request drops it, as long as the file could be read.
GivenTokensWork ==
  oaLosses = 0 => \A held \in oaHeld : held.until > oaClock => Accepts(held)
============================================================================
