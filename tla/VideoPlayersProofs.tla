-------------------------- MODULE VideoPlayersProofs --------------------------
(***************************************************************************)
(* Theorems about VideoPlayers, for media of every length and every number *)
(* of prepares and plays.                                                  *)
(***************************************************************************)
EXTENDS VideoPlayers, SequenceTheorems, TLAPS

USE DEF fakeVars, mpvVars, historyVars, Media

\* A Runtime has one adapter: what belongs to the other one is never touched.
OneAdapter ==
  /\ player = "fake" => /\ ~was_playing /\ opening = None /\ ~notice
                        /\ callback = "none" /\ posted = <<>>
  /\ player = "mpv" => loading = None /\ playback = None

\* What has a medium had a prepare.
MediaWerePrepared ==
  /\ prepared \/ was_playing \/ callback = "tested" => generation \in Media
  /\ {observing, loading, opening, file} \subseteq {None} \cup 1..generation
  /\ playback # None => /\ playback = [medium |-> playback.medium, left |-> playback.left]
                        /\ playback.medium \in 1..generation

\* A step of the playback that is left does not take the position beyond its bound,
\* wherever it was sought to meanwhile.
PositionIsBounded ==
  /\ playback # None /\ playback.left # None => position + playback.left <= 2 * Duration

\* The plays that have not been ended, and of those the ones that will be.
CreditIsOwed ==
  /\ credit \in Int /\ plays \in Nat
  /\ player = "fake" => credit >= IF playback # None THEN 1 ELSE 0
  /\ player = "mpv" =>
       credit >= Len(posted) + IF was_playing \/ callback = "tested" THEN 1 ELSE 0

\* Of the simulated player: the medium that is loaded or loading is the last one, and a
\* playback of that medium is due.
FakeIsAtItsMedium ==
  player = "fake" =>
    /\ observing # None => observing = generation
    /\ loading # None => loading = generation
    /\ prepared => file = generation
    /\ playback # None /\ playback.medium = generation => due = generation

IInv ==
  /\ TypeOK /\ OneAdapter /\ MediaWerePrepared /\ PositionIsBounded /\ CreditIsOwed
  /\ FakeIsAtItsMedium /\ EndedWasPlaying /\ PrepareShowsItsMedium

-----------------------------------------------------------------------------
\* TypeOK, variable by variable.
LEMMA PlayerTypes ==
  TypeOK <=>
    /\ player \in Players
    /\ generation \in 0..MaxMedia
    /\ observing \in 1..MaxMedia \cup {None} /\ loading \in 1..MaxMedia \cup {None}
    /\ opening \in 1..MaxMedia \cup {None} /\ file \in 1..MaxMedia \cup {None}
    /\ due \in 1..MaxMedia \cup {None}
    /\ prepared \in BOOLEAN /\ playing \in BOOLEAN /\ was_playing \in BOOLEAN /\ notice \in BOOLEAN
    /\ position \in 0..(2 * Duration)
    /\ playback # None => playback.medium \in 1..MaxMedia /\ playback.left \in 1..Duration \cup {None}
    /\ callback \in {"none", "tested"}
    /\ posted \in Seq(1..MaxMedia)
BY DEF TypeOK

\* The numbers of the model.
LEMMA PlayerNumbers ==
  TypeOK => /\ generation \in Int /\ position \in Int /\ Duration \in Int /\ MaxMedia \in Int
            /\ MaxPlays \in Int /\ None \notin Int /\ Duration > 0
            /\ player \in {"fake", "mpv"}
BY VideoBoundsAssumption, PlayersAssumption DEF TypeOK

\* Every step keeps a Runtime with its one adapter.
LEMMA AdapterStep == IInv /\ [Next]_vars => OneAdapter'
<1> SUFFICES ASSUME IInv, [Next]_vars PROVE OneAdapter'
  OBVIOUS
<1>a. OneAdapter /\ player \in {"fake", "mpv"}
  BY PlayerNumbers DEF IInv
<1>1. CASE FakePrepare \/ FakePlay \/ FakePause \/ FakeStop \/ MpvPrepare \/ MpvPlay \/ MpvStop
  BY <1>1, <1>a
     DEF FakePrepare, FakePlay, FakePause, FakeStop, MpvPrepare, MpvPlay, MpvStop, Accepted,
         Prepares, PlayIsDue, OneAdapter
<1>2. ASSUME NEW to \in -1..Duration, FakeSeek(to) PROVE OneAdapter'
  BY <1>2, <1>a DEF FakeSeek, Accepted, OneAdapter
<1>3. CASE Observe \/ Expire \/ FakeLoaded \/ FakePlayback
  <2>1. CASE Observe \/ Expire \/ FakeLoaded
    <3>1. /\ UNCHANGED <<player, mpvVars, playback>>
          /\ loading' = loading \/ (loading # None /\ loading' = None)
      BY <2>1 DEF Observe, Expire, FakeLoaded
    <3> QED
      BY <3>1, <1>a DEF OneAdapter
  <2>2. CASE FakePlayback
    <3>1. playback # None /\ UNCHANGED <<player, loading, mpvVars>>
      BY <2>2 DEF FakePlayback
    <3> QED
      BY <3>1, <1>a DEF OneAdapter
  <2> QED
    BY <1>3, <2>1, <2>2
<1>4. CASE MpvOpens \/ MpvIdle \/ MpvPublish
  BY <1>4, <1>a DEF MpvOpens, MpvIdle, MpvPublish, OneAdapter
<1>5. CASE UNCHANGED vars
  BY <1>5, <1>a DEF vars, OneAdapter
<1> QED
  BY <1>1, <1>2, <1>3, <1>4, <1>5 DEF Next, FakeCommand, MpvCommand, Progress

\* A playback begins with all that is left of the medium, and then a step less is left.
LEMMA PlaybackGoesOn ==
  ASSUME TypeOK, MediaWerePrepared, PositionIsBounded, FakePlayback
  PROVE  /\ playback # None /\ position' \in 0..(2 * Duration)
         /\ \/ /\ playback' = [medium |-> playback.medium, left |-> playback'.left]
               /\ playback'.medium = playback.medium
               /\ playback'.left \in 1..Duration
               /\ position' + playback'.left <= 2 * Duration
               /\ UNCHANGED <<playing, credit, due, ended>>
            \/ /\ playback' = None /\ playing' = FALSE
               /\ playback.medium = generation => Publish(generation)
               /\ playback.medium # generation => UNCHANGED <<credit, due, ended>>
         /\ UNCHANGED <<player, generation, observing, prepared, loading, file, mpvVars,
                        plays, found>>
<1> DEFINE begins == playback.left = None
           left == IF begins THEN Duration - position ELSE playback.left - 1
<1>a. playback # None /\ playback = [medium |-> playback.medium, left |-> playback.left]
  BY DEF FakePlayback, MediaWerePrepared
<1>1. /\ position \in Int /\ position >= 0 /\ position <= 2 * Duration /\ Duration \in Int
      /\ ~begins => playback.left \in Int /\ playback.left >= 1 /\ playback.left <= Duration
      /\ ~begins => position + playback.left <= 2 * Duration
  BY <1>a, PlayerTypes, PlayerNumbers DEF PositionIsBounded
<1>2. /\ position' = IF begins THEN position ELSE position + 1
      /\ IF left > 0
         THEN /\ playback' = [playback EXCEPT !.left = left]
              /\ UNCHANGED <<playing, credit, due, ended>>
         ELSE /\ playback' = None /\ playing' = FALSE
              /\ IF playback.medium = generation
                 THEN Publish(generation) ELSE UNCHANGED <<credit, due, ended>>
      /\ UNCHANGED <<player, generation, observing, prepared, loading, file, mpvVars,
                     plays, found>>
  BY DEF FakePlayback
<1>3. /\ left \in Int /\ left <= Duration /\ position' \in 0..(2 * Duration)
      /\ position' + left <= 2 * Duration
  BY <1>1, <1>2
<1> HIDE DEF left
<1>4. [playback EXCEPT !.left = left] = [medium |-> playback.medium, left |-> left]
  BY <1>a
<1> QED
  BY <1>a, <1>2, <1>3, <1>4

\* Every step keeps the media among those that had a prepare, and the playback what it is.
LEMMA MediaStep == IInv /\ [Next]_vars => MediaWerePrepared' /\ PositionIsBounded'
<1> SUFFICES ASSUME IInv, [Next]_vars PROVE MediaWerePrepared' /\ PositionIsBounded'
  OBVIOUS
<1>a. TypeOK /\ MediaWerePrepared /\ PositionIsBounded /\ OneAdapter
  BY DEF IInv
<1>b. /\ generation \in Int /\ generation >= 0 /\ generation <= MaxMedia
      /\ position \in Int /\ Duration \in Int /\ MaxMedia \in Int /\ None \notin Int
      /\ playback # None => playback.left \in Int \/ playback.left = None
  BY <1>a, PlayerTypes, PlayerNumbers
<1>1. CASE FakePrepare \/ MpvPrepare
  <2>1. /\ generation' = generation + 1 /\ generation < MaxMedia
        /\ observing' \in {None, generation'}
        /\ loading' \in {loading, generation'} /\ opening' \in {opening, generation'}
        /\ prepared' => prepared
        /\ UNCHANGED <<file, playback, position, was_playing, callback>>
    BY <1>1 DEF FakePrepare, MpvPrepare, Prepares
  <2> QED
    BY <2>1, <1>a, <1>b DEF MediaWerePrepared, PositionIsBounded
<1>2. CASE FakePlay
  <2>1. /\ generation \in Media /\ UNCHANGED <<generation, observing, loading, opening, file,
                                               position, prepared, was_playing, callback>>
        /\ playback' = [medium |-> generation, left |-> None]
    BY <1>2, <1>a DEF FakePlay, Accepted, PlayIsDue, MediaWerePrepared
  <2> QED
    BY <2>1, <1>a, <1>b DEF MediaWerePrepared, PositionIsBounded
<1>3. CASE MpvPlay
  <2>1. /\ generation \in Media
        /\ UNCHANGED <<generation, observing, loading, opening, file, position, playback>>
    BY <1>3, <1>a, <1>b DEF MpvPlay, Accepted, PlayIsDue, MediaWerePrepared
  <2> QED
    BY <2>1, <1>a DEF MediaWerePrepared, PositionIsBounded
<1>4. CASE FakePause \/ FakeStop \/ MpvStop
  BY <1>4, <1>a
     DEF FakePause, FakeStop, MpvStop, Accepted, MediaWerePrepared, PositionIsBounded
<1>5. ASSUME NEW to \in -1..Duration, FakeSeek(to)
      PROVE  MediaWerePrepared' /\ PositionIsBounded'
  <2>1. /\ position' \in Int /\ position' <= Duration
        /\ UNCHANGED <<generation, observing, loading, opening, file, playback, prepared,
                       was_playing, callback>>
    BY <1>5, <1>b, VideoBoundsAssumption DEF FakeSeek, Clipped
  <2>2. playback # None /\ playback.left # None => playback.left \in Int /\ playback.left <= Duration
    BY <1>a, <1>b, PlayerTypes
  <2> QED
    BY <2>1, <2>2, <1>a, <1>b DEF MediaWerePrepared, PositionIsBounded
<1>6. CASE Observe \/ Expire \/ FakeLoaded
  <2>1. CASE Observe \/ Expire
    BY <2>1, <1>a DEF Observe, Expire, MediaWerePrepared, PositionIsBounded
  <2>2. CASE FakeLoaded
    <3>1. /\ loading \in 1..generation /\ file' = loading /\ loading' = None
          /\ UNCHANGED <<generation, observing, opening, playback, position, was_playing, callback>>
      BY <2>2, <1>a DEF FakeLoaded, MediaWerePrepared
    <3>2. generation \in Media
      BY <3>1, <1>b
    <3> QED
      BY <3>1, <3>2, <1>a DEF MediaWerePrepared, PositionIsBounded
  <2> QED
    BY <1>6, <2>1, <2>2
<1>7. CASE FakePlayback
  <2>1. /\ playback # None
        /\ \/ /\ playback' = [medium |-> playback.medium, left |-> playback'.left]
              /\ playback'.medium = playback.medium
              /\ position' + playback'.left <= 2 * Duration
           \/ playback' = None
        /\ UNCHANGED <<generation, observing, prepared, loading, file, mpvVars>>
    BY <1>7, <1>a, PlaybackGoesOn
  <2>2. playback.medium \in 1..generation
    BY <2>1, <1>a DEF MediaWerePrepared
  <2>3. MediaWerePrepared'
    BY <2>1, <2>2, <1>a DEF MediaWerePrepared
  <2>4. PositionIsBounded'
    BY <2>1, <1>b DEF PositionIsBounded
  <2> QED
    BY <2>3, <2>4
<1>8. CASE MpvOpens \/ MpvIdle \/ MpvPublish
  <2>1. CASE MpvOpens
    <3>1. /\ file' \in {None, opening} /\ opening' \in {None, opening}
          /\ UNCHANGED <<generation, observing, loading, playback, position, prepared, was_playing,
                         callback>>
      BY <2>1 DEF MpvOpens
    <3> QED
      BY <3>1, <1>a DEF MediaWerePrepared, PositionIsBounded
  <2>2. CASE MpvIdle
    <3>1. /\ was_playing' \/ callback' = "tested" => was_playing \/ callback = "tested"
          /\ UNCHANGED <<generation, observing, loading, opening, file, playback, position, prepared>>
      BY <2>2 DEF MpvIdle
    <3> QED
      BY <3>1, <1>a DEF MediaWerePrepared, PositionIsBounded
  <2>3. CASE MpvPublish
    BY <2>3, <1>a DEF MpvPublish, MediaWerePrepared, PositionIsBounded
  <2> QED
    BY <1>8, <2>1, <2>2, <2>3
<1>9. CASE UNCHANGED vars
  BY <1>9, <1>a DEF vars, MediaWerePrepared, PositionIsBounded
<1> QED
  BY <1>1, <1>2, <1>3, <1>4, <1>5, <1>6, <1>7, <1>8, <1>9
     DEF Next, FakeCommand, MpvCommand, Progress

\* Every step keeps the types and the bounds.
LEMMA TypeStep == IInv /\ [Next]_vars => TypeOK'
<1> SUFFICES ASSUME IInv, [Next]_vars PROVE TypeOK'
  OBVIOUS
<1>a. TypeOK /\ MediaWerePrepared /\ PositionIsBounded
  BY DEF IInv
<1>b. /\ generation \in Int /\ generation >= 0 /\ generation <= MaxMedia
      /\ position \in Int /\ Duration \in Int /\ MaxMedia \in Int /\ None \notin Int
      /\ Duration > 0
  BY <1>a, PlayerTypes, PlayerNumbers
<1>1. CASE FakePrepare \/ MpvPrepare
  <2>1. /\ generation' = generation + 1 /\ generation < MaxMedia
        /\ observing' \in {None, generation'} /\ due' = None
        /\ loading' \in {loading, generation'} /\ opening' \in {opening, generation'}
        /\ prepared' \in {FALSE, prepared}
        /\ UNCHANGED <<player, playing, position, playback, file, was_playing, notice, callback,
                       posted>>
    BY <1>1 DEF FakePrepare, MpvPrepare, Accepted, Prepares
  <2>2. generation' \in 0..MaxMedia /\ generation' \in 1..MaxMedia
    BY <2>1, <1>b
  <2> QED
    BY <2>1, <2>2, <1>a DEF TypeOK
<1>2. CASE FakePlay \/ MpvPlay
  <2>1. generation \in Media
    BY <1>2, <1>a, <1>b DEF FakePlay, MpvPlay, MediaWerePrepared
  <2> QED
    <3>1. /\ due' = generation /\ playing' \in {TRUE, playing}
          /\ was_playing' \in {TRUE, was_playing}
          /\ playback' \in {playback, [medium |-> generation, left |-> None]}
          /\ UNCHANGED <<player, generation, observing, file, prepared, loading, position, opening,
                         notice, callback, posted>>
      BY <1>2 DEF FakePlay, MpvPlay, Accepted, PlayIsDue
    <3>2. playback' # None =>
            playback'.medium \in Media /\ playback'.left \in 1..Duration \cup {None}
      BY <3>1, <2>1, <1>a DEF TypeOK
    <3>3. playing' \in BOOLEAN /\ was_playing' \in BOOLEAN
      BY <3>1, <1>a, PlayerTypes
    <3> QED
      BY <3>1, <3>2, <3>3, <2>1, <1>a DEF TypeOK
<1>3. CASE FakePause \/ FakeStop \/ MpvStop
  <2>1. 0 \in 0..(2 * Duration)
    BY <1>b
  <2> QED
    BY <1>3, <2>1, <1>a DEF FakePause, FakeStop, MpvStop, Accepted, TypeOK
<1>4. ASSUME NEW to \in -1..Duration, FakeSeek(to) PROVE TypeOK'
  <2>1. Clipped(to) \in 0..(2 * Duration)
    BY <1>b DEF Clipped
  <2> QED
    BY <1>4, <2>1, <1>a DEF FakeSeek, Accepted, TypeOK
<1>5. CASE Observe \/ Expire \/ FakeLoaded
  BY <1>5, <1>a DEF Observe, Expire, FakeLoaded, TypeOK
<1>6. CASE FakePlayback
  <2>1. /\ playback # None /\ position' \in 0..(2 * Duration)
        /\ playing' \in {FALSE, playing} /\ due' \in {None, due}
        /\ playback' # None =>
             playback'.medium = playback.medium /\ playback'.left \in 1..Duration
        /\ UNCHANGED <<player, generation, observing, prepared, loading, file, mpvVars>>
    BY <1>6, <1>a, PlaybackGoesOn DEF Publish
  <2> QED
    BY <2>1, <1>a DEF TypeOK
<1>7. CASE MpvOpens \/ MpvIdle \/ MpvPublish
  <2>1. CASE MpvOpens
    BY <2>1, <1>a DEF MpvOpens, TypeOK
  <2>2. CASE MpvIdle
    <3>1. posted' \in {posted, Append(posted, generation)}
          /\ (posted' # posted => generation \in 1..MaxMedia)
      BY <2>2, <1>a DEF MpvIdle, MediaWerePrepared
    <3>2. posted' \in Seq(1..MaxMedia)
      <4>1. posted \in Seq(1..MaxMedia)
        BY <1>a, PlayerTypes
      <4>2. ASSUME generation \in 1..MaxMedia
            PROVE  Append(posted, generation) \in Seq(1..MaxMedia)
        BY <4>1, <4>2, AppendProperties
      <4> QED
        BY <3>1, <4>1, <4>2
    <3>3. /\ was_playing' \in {FALSE, was_playing} /\ notice' \in {FALSE, notice}
          /\ callback' \in {"none", "tested"}
          /\ UNCHANGED <<player, generation, observing, opening, file, fakeVars, due>>
      BY <2>2 DEF MpvIdle
    <3> QED
      BY <3>2, <3>3, <1>a DEF TypeOK
  <2>3. CASE MpvPublish
    <3>1. posted' \in Seq(1..MaxMedia)
      BY <2>3, <1>a, PlayerTypes, HeadTailProperties DEF MpvPublish
    <3> QED
      BY <2>3, <3>1, <1>a DEF MpvPublish, Publish, TypeOK
  <2> QED
    BY <1>7, <2>1, <2>2, <2>3
<1>8. CASE UNCHANGED vars
  BY <1>8, <1>a DEF vars, TypeOK
<1> QED
  BY <1>1, <1>2, <1>3, <1>4, <1>5, <1>6, <1>7, <1>8
     DEF Next, FakeCommand, MpvCommand, Progress

\* Every step keeps the credit: one publication of playback.ended at most is on its way
\* for a play, although a thread tests and resets the flag that says so.
LEMMA CreditStep == IInv /\ [Next]_vars => CreditIsOwed'
<1> SUFFICES ASSUME IInv, [Next]_vars PROVE CreditIsOwed'
  OBVIOUS
<1>a. /\ TypeOK /\ CreditIsOwed /\ OneAdapter /\ player \in {"fake", "mpv"}
      /\ was_playing \in BOOLEAN
  BY PlayerNumbers, PlayerTypes DEF IInv
<1>b. posted \in Seq(1..MaxMedia) /\ Len(posted) \in Nat
  BY <1>a, PlayerTypes
<1>1. CASE FakePlay \/ MpvPlay
  BY <1>1, <1>a, <1>b DEF FakePlay, MpvPlay, Accepted, PlayIsDue, CreditIsOwed
<1>2. CASE FakePrepare \/ MpvPrepare \/ FakePause \/ FakeStop \/ MpvStop
  BY <1>2, <1>a, <1>b
     DEF FakePrepare, MpvPrepare, Prepares, FakePause, FakeStop, MpvStop, Accepted, CreditIsOwed
<1>3. ASSUME NEW to \in -1..Duration, FakeSeek(to) PROVE CreditIsOwed'
  BY <1>3, <1>a DEF FakeSeek, Accepted, CreditIsOwed
<1>4. CASE Observe \/ Expire \/ FakeLoaded \/ MpvOpens
  <2>1. UNCHANGED <<player, credit, plays, playback, was_playing, callback, posted>>
    BY <1>4 DEF Observe, Expire, FakeLoaded, MpvOpens
  <2> QED
    BY <2>1, <1>a DEF CreditIsOwed
<1>5. CASE FakePlayback
  <2>1. /\ playback # None
        /\ \/ credit' = credit
           \/ playback' = None /\ credit' = credit - 1
        /\ UNCHANGED <<player, plays>>
    BY <1>5, PlaybackGoesOn DEF IInv, Publish
  <2> QED
    BY <2>1, <1>a DEF OneAdapter, CreditIsOwed
<1>6. CASE MpvIdle
  <2>1. player = "mpv" /\ UNCHANGED <<player, credit, plays>>
    BY <1>6, <1>a DEF MpvIdle, OneAdapter
  <2>2. \/ /\ Len(posted') = Len(posted) /\ UNCHANGED was_playing /\ callback = "none"
           /\ callback' = "tested" => was_playing
        \/ /\ Len(posted') = Len(posted) + 1 /\ callback = "tested"
           /\ was_playing' = FALSE /\ callback' = "none"
    BY <1>6, <1>b, AppendProperties DEF MpvIdle
  <2> QED
    BY <2>1, <2>2, <1>a, <1>b DEF CreditIsOwed
<1>7. CASE MpvPublish
  <2>1. player = "mpv" /\ UNCHANGED <<player, plays, was_playing, callback>>
        /\ credit' = credit - 1 /\ posted' = Tail(posted) /\ posted # <<>>
    BY <1>7, <1>a DEF MpvPublish, Publish, OneAdapter
  <2>2. Len(posted') = Len(posted) - 1
    BY <2>1, <1>b, HeadTailProperties
  <2> QED
    BY <2>1, <2>2, <1>a, <1>b DEF CreditIsOwed
<1>8. CASE UNCHANGED vars
  BY <1>8, <1>a DEF vars, CreditIsOwed
<1> QED
  BY <1>1, <1>2, <1>3, <1>4, <1>5, <1>6, <1>7, <1>8
     DEF Next, FakeCommand, MpvCommand, Progress

\* Every step of the simulated player keeps it at its medium: a prepare that is observed
\* has loaded its own, and what ends is what is due.
LEMMA FakeStep ==
  IInv /\ [Next]_vars => FakeIsAtItsMedium' /\ EndedWasPlaying' /\ PrepareShowsItsMedium'
<1> SUFFICES ASSUME IInv, [Next]_vars
             PROVE  FakeIsAtItsMedium' /\ EndedWasPlaying' /\ PrepareShowsItsMedium'
  OBVIOUS
<1>a. /\ FakeIsAtItsMedium /\ EndedWasPlaying /\ PrepareShowsItsMedium /\ OneAdapter
      /\ MediaWerePrepared /\ TypeOK
  BY DEF IInv
<1>b. generation \in Int /\ None \notin Int /\ UNCHANGED player
  BY <1>a, PlayerNumbers
     DEF Next, FakeCommand, MpvCommand, Progress, FakePrepare, FakePlay, FakePause, FakeStop,
         FakeSeek, MpvPrepare, MpvPlay, MpvStop, Accepted, Observe, Expire, FakeLoaded,
         FakePlayback, MpvOpens, MpvIdle, MpvPublish, vars
<1>c. CASE player # "fake"
  BY <1>b, <1>c DEF FakeIsAtItsMedium, EndedWasPlaying, PrepareShowsItsMedium
<1>d. CASE player = "fake"
  <2>a. ~MpvCommand /\ ~MpvOpens /\ ~MpvIdle /\ ~MpvPublish
    BY <1>a, <1>d
       DEF OneAdapter, MpvCommand, MpvPrepare, MpvPlay, MpvStop, Accepted, MpvOpens, MpvIdle,
           MpvPublish
  <2>1. CASE FakePrepare
    <3>1. /\ generation' = generation + 1 /\ observing' \in {None, generation'}
          /\ loading' = generation' /\ ~prepared' /\ UNCHANGED <<playback, ended, found>>
      BY <2>1 DEF FakePrepare, Prepares
    <3>2. playback # None => playback.medium \in 1..generation
      BY <1>a DEF MediaWerePrepared
    <3>3. playback' # None => playback'.medium # generation'
      BY <3>1, <3>2, <1>b
    <3> QED
      BY <3>1, <3>3, <1>a, <1>b, <1>d
         DEF FakeIsAtItsMedium, EndedWasPlaying, PrepareShowsItsMedium
  <2>2. CASE FakePlay
    BY <2>2, <1>a, <1>b, <1>d
       DEF FakePlay, PlayIsDue, Accepted, FakeIsAtItsMedium, EndedWasPlaying,
           PrepareShowsItsMedium
  <2>3. CASE FakePause \/ FakeStop
    BY <2>3, <1>a, <1>b, <1>d
       DEF FakePause, FakeStop, Accepted, FakeIsAtItsMedium, EndedWasPlaying,
           PrepareShowsItsMedium
  <2>4. ASSUME NEW to \in -1..Duration, FakeSeek(to)
        PROVE  FakeIsAtItsMedium' /\ EndedWasPlaying' /\ PrepareShowsItsMedium'
    BY <2>4, <1>a, <1>b, <1>d
       DEF FakeSeek, FakeIsAtItsMedium, EndedWasPlaying, PrepareShowsItsMedium
  <2>5. CASE Observe
    <3>1. observing = generation /\ file = generation
      BY <2>5, <1>a, <1>d DEF Observe, IsPrepared, FakeIsAtItsMedium
    <3>2. /\ found' = found \cup {[asked |-> observing, loaded |-> file]} /\ observing' = None
          /\ UNCHANGED <<generation, file, loading, prepared, playback, due, ended>>
      BY <2>5 DEF Observe
    <3> QED
      BY <3>1, <3>2, <1>a, <1>d DEF FakeIsAtItsMedium, EndedWasPlaying, PrepareShowsItsMedium
  <2>6. CASE Expire \/ FakeLoaded
    <3>1. CASE Expire
      BY <3>1, <1>a, <1>b, <1>d
         DEF Expire, FakeIsAtItsMedium, EndedWasPlaying, PrepareShowsItsMedium
    <3>2. CASE FakeLoaded
      BY <3>2, <1>a, <1>b, <1>d
         DEF FakeLoaded, FakeIsAtItsMedium, EndedWasPlaying, PrepareShowsItsMedium
    <3> QED
      BY <2>6, <3>1, <3>2
  <2>7. CASE FakePlayback
    <3>1. /\ playback # None
          /\ \/ playback' # None /\ playback'.medium = playback.medium /\ UNCHANGED <<due, ended>>
             \/ playback' = None /\ UNCHANGED <<due, ended>>
             \/ /\ playback' = None /\ playback.medium = generation
                /\ ended' = ended \cup {[medium |-> generation, due |-> due]}
          /\ UNCHANGED <<generation, observing, prepared, loading, file, found>>
      <4>1. playback' = [medium |-> playback.medium, left |-> playback'.left] =>
              playback'.medium = playback.medium
        OBVIOUS
      <4>2. playback' = None \/ playback' # None
        OBVIOUS
      <4> QED
        BY <2>7, <1>a, PlaybackGoesOn, <4>1, <4>2 DEF IInv, Publish
    <3>2. playback.medium = generation => due = generation
      BY <3>1, <1>a, <1>d DEF FakeIsAtItsMedium
    <3>3. EndedWasPlaying' /\ PrepareShowsItsMedium'
      BY <3>1, <3>2, <1>a, <1>b, <1>d DEF EndedWasPlaying, PrepareShowsItsMedium
    <3>4. FakeIsAtItsMedium'
      BY <3>1, <1>a, <1>b, <1>d DEF FakeIsAtItsMedium
    <3> QED
      BY <3>3, <3>4
  <2>8. CASE UNCHANGED vars
    BY <2>8, <1>a DEF vars, FakeIsAtItsMedium, EndedWasPlaying, PrepareShowsItsMedium
  <2> QED
    BY <2>a, <2>1, <2>2, <2>3, <2>4, <2>5, <2>6, <2>7, <2>8 DEF Next, FakeCommand, Progress
<1> QED
  BY <1>c, <1>d

-----------------------------------------------------------------------------
\* A Runtime starts with an idle player.
LEMMA InitPlayer == Init => IInv
<1> SUFFICES ASSUME Init PROVE IInv
  OBVIOUS
<1>1. player \in {"fake", "mpv"} /\ Duration \in Nat /\ MaxMedia \in Nat
  BY PlayersAssumption, VideoBoundsAssumption DEF Init
<1>2. TypeOK
  <2>1. 0 \in 0..MaxMedia /\ 0 \in 0..(2 * Duration) /\ <<>> \in Seq(1..MaxMedia)
    BY <1>1
  <2> QED
    BY <2>1 DEF Init, FakeInit, MpvInit, TypeOK
<1>3. OneAdapter /\ MediaWerePrepared /\ PositionIsBounded
  BY DEF Init, FakeInit, MpvInit, OneAdapter, MediaWerePrepared, PositionIsBounded
<1>4. CreditIsOwed
  BY DEF Init, FakeInit, MpvInit, CreditIsOwed
<1>5. FakeIsAtItsMedium /\ EndedWasPlaying /\ PrepareShowsItsMedium
  BY DEF Init, FakeInit, FakeIsAtItsMedium, EndedWasPlaying, PrepareShowsItsMedium
<1> QED
  BY <1>2, <1>3, <1>4, <1>5 DEF IInv

LEMMA PlayersAreKept == Spec => []IInv
<1>1. IInv /\ [Next]_vars => IInv'
  BY TypeStep, AdapterStep, MediaStep, CreditStep, FakeStep DEF IInv
<1> QED
  BY InitPlayer, <1>1, PTL DEF Spec

\* Every play is ended once at most, although mpv's flag that says so is set on one thread
\* and reset on another (mpv_adapter.py _on_idle_active), and a simulated playback may be
\* replaced, cancelled or overtaken (fake_video_player.py _run_playback).
THEOREM PlaysEndOnce == Spec => []PlayerInv
<1>1. IInv => PlayerInv
  <2> SUFFICES ASSUME IInv PROVE PlayerInv
    OBVIOUS
  <2>1. TypeOK /\ CreditIsOwed /\ player \in {"fake", "mpv"}
    BY PlayerNumbers DEF IInv
  <2>2. Len(posted) \in Nat
    BY <2>1, PlayerTypes
  <2> QED
    BY <2>1, <2>2 DEF CreditIsOwed, PlayerInv, EndedOncePerPlay
<1> QED
  BY <1>1, PlayersAreKept, PTL

\* playback.ended of the simulated player is about the medium that was played and neither
\* stopped, paused nor replaced since (fake_video_player.py _run_playback).
THEOREM WhatEndedWasPlaying == Spec => []EndedWasPlaying
<1>1. IInv => EndedWasPlaying
  BY DEF IInv
<1> QED
  BY <1>1, PlayersAreKept, PTL

\* A prepare of the simulated player that is observed to be complete has its own medium
\* loaded (fake_video_player.py _run_prepare, is_action_complete).
THEOREM PreparesShowTheirMedium == Spec => []PrepareShowsItsMedium
<1>1. IInv => PrepareShowsItsMedium
  BY DEF IInv
<1> QED
  BY <1>1, PlayersAreKept, PTL
=============================================================================
