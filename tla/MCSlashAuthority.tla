--------------------------- MODULE MCSlashAuthority ---------------------------
(* One agent; one time unit is a day.  The clock leaves room for two       *)
(* overlapping slashes, or for one under the kill switch, while executor   *)
(* and resolver swap and the treasury changes, or while the settle timing  *)
(* is re-tuned; and, before any vault exists, for two rotations among five *)
(* signing keys with pauses between, from legacy and current accounts.     *)
EXTENDS SlashAuthority

CONSTANTS adm, k1, k2, k3, k4, t1, t2, burn

SlashKeys == {DefaultKey, adm, k1, k2, k3, k4, t1, t2, burn}

Request(e, r, p, t, tl) ==
  [executor |-> e, resolver |-> r, pauser |-> p, treasury |-> t,
   settlementTimelock |-> tl]

\* The genesis set, the swap, a reshuffle with a new key, and three malformed
\* requests the handlers must refuse.
GenesisRequest == Request(k1, k2, k3, t1, 3)
SwapRequest == Request(k2, k1, k3, t2, 3)
Requests ==
  {GenesisRequest, SwapRequest, Request(k4, k1, k3, t1, 3),
   Request(adm, k2, k3, t1, 3), Request(k1, k1, k3, t1, 3),
   Request(DefaultKey, k2, k3, t1, 3)}
NoRotation == {GenesisRequest}

\* BOUND: one of a second slash, a pause, a rotation and another timing.
Single == \A a \in Agent : vault[a].count <= 1
Unpaused == cfg.pausedUntil = 0
Unrotated == pending = NoProposal /\ cfg.version = 1
Untuned == cfg.floor = DefaultFloor
Swaps ==
  /\ pending # NoProposal => cfg.version = 1 /\ pending.new = SwapRequest
  /\ cfg.version = 2 => cfg.treasury = t2
OneStory ==
  /\ cfg.floor > 0 /\ cfg.version <= 2
  /\ cfg.paused => cfg.pausedUntil = cfg.pausedAt + MaxPause
  /\ \/ Unpaused /\ Unrotated /\ Untuned
     \/ Single /\ Unrotated /\ Untuned
     \/ Single /\ Unpaused /\ Swaps /\ (Unrotated \/ Untuned)

\* BOUND: without a vault, the governance alone.
GovernanceOnly ==
  /\ \A a \in Agent : ~ vault[a].open
  /\ cfg.treasury = t1
  /\ pending # NoProposal => pending.new # SwapRequest

SlashStoryInit == Init /\ cfg.executor = k1
SlashStoryNext == Next /\ (GovernanceOnly \/ OneStory)'
SlashStorySpec == SlashStoryInit /\ [][SlashStoryNext]_vars

ReviewWindows == {1, 2}
Timings == {<<1, 1>>, <<8, 1>>}
Durations == {1, 2, 3}
Never == {}
Admins == {adm}
Stakes == {1, 1000}

Cert(alert, red, repudiated, at) ==
  [alert |-> alert, immediateRed |-> red, repudiated |-> repudiated,
   issuedAt |-> at]

\* A stale-able RED, a repudiated RED, a healthy GREEN.
Certs == {Cert("red", FALSE, FALSE, 1), Cert("red", TRUE, TRUE, 1),
          Cert("green", FALSE, FALSE, 1)}
=============================================================================
