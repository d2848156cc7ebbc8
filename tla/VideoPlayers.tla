---------------------------- MODULE VideoPlayers ----------------------------
(***************************************************************************)
(* The adapters of a Video Runtime: the simulated player                   *)
(* (simulation/fake_video_player.py) and mpv (apps/video/mpv_adapter.py),  *)
(* under the TargetRunner that submits their commands and polls an         *)
(* observed prepare (core/target_runner.py).                               *)
(*                                                                         *)
(* A medium is known by the generation its prepare gave it.  The simulated *)
(* player loads and plays in tasks of the loop that sleep; mpv does both   *)
(* by itself and reports that it goes idle on a thread of its own, which   *)
(* reads and resets fields the loop also writes.  mpv is external: it goes *)
(* idle when it is stopped and when a file does not load, and, kept open   *)
(* (main_mpv.py:156), not at the end of one.  Volume and loop touch        *)
(* nothing else and are left out.                                          *)
(***************************************************************************)
EXTENDS Integers, Sequences

CONSTANTS
  Players,   \* which adapters a Runtime may be assembled with
  Duration,  \* length of a medium, in steps of the playback
  MaxMedia,  \* bound of the number of prepares
  MaxPlays,  \* bound of the number of plays
  None       \* no task, no command, no file

ASSUME PlayersAssumption == Players \subseteq {"fake", "mpv"}
ASSUME VideoBoundsAssumption ==
  Duration \in Nat \ {0} /\ MaxMedia \in Nat \ {0} /\ MaxPlays \in Nat /\ None \notin Int

VARIABLES
  player,       \* the adapter of this Runtime
  generation,   \* _media_generation
  observing,    \* the prepare a runner polls, by its generation, or None
  prepared,     \* fake: _prepared
  loading,      \* fake: the medium _prepare_task loads, or None
  playing,      \* fake: _playing
  position,     \* fake: _position_s
  playback,     \* fake: _play_task: medium and steps left (None: not begun), or None
  was_playing,  \* mpv: _was_playing
  opening,      \* mpv's own: the medium it was told to load, or None
  file,         \* the medium that is loaded, or None (fake: history)
  notice,       \* mpv's own: it went idle and has not said so yet
  callback,     \* mpv's thread: "none", or "tested" in the middle of _on_idle_active
  posted,       \* publications the thread has put to the loop
  plays,        \* history: plays so far
  credit,       \* history: plays less publications of playback.ended
  due,          \* history: the medium played and not stopped, paused or replaced since
  ended,        \* history: publications, each with what was due
  found         \* history: prepares observed to be complete, with what was loaded

fakeVars == <<prepared, loading, playing, position, playback>>
mpvVars  == <<was_playing, opening, notice, callback, posted>>
historyVars == <<plays, credit, due, ended, found>>
vars == <<player, generation, observing, file, fakeVars, mpvVars, historyVars>>

Media == 1..MaxMedia

-----------------------------------------------------------------------------
\* Commands.  While a prepare is observed only stop is accepted.

Accepted(kind) ==
  /\ player = kind
  /\ observing = None
  /\ UNCHANGED player

\* A prepare gives its medium a generation; its runner observes it or does not.
Prepares ==
  /\ generation < MaxMedia
  /\ generation' = generation + 1
  /\ observing' \in {None, generation'}
  /\ due' = None

\* (mutant of FakePrepare: the flag of the medium before is left)
FakePrepareKeepsFlag ==
  /\ Accepted("fake") /\ Prepares
  /\ loading' = generation'
  /\ UNCHANGED <<prepared, playing, position, playback, file, mpvVars, plays, credit, ended, found>>

FakePrepare ==
  /\ Accepted("fake") /\ Prepares
  /\ prepared' = FALSE
  /\ loading' = generation'
  /\ UNCHANGED <<playing, position, playback, file, mpvVars, plays, credit, ended, found>>

\* mpv is told to load; its duration stays that of the old file until it does.
MpvPrepare ==
  /\ Accepted("mpv") /\ Prepares
  /\ opening' = generation'
  /\ UNCHANGED <<was_playing, notice, callback, posted, file, fakeVars, plays, credit, ended, found>>

PlayIsDue ==
  /\ plays < MaxPlays
  /\ plays' = plays + 1
  /\ credit' = credit + 1
  /\ due' = generation
  /\ UNCHANGED <<generation, observing, file, ended, found>>

\* (mutant of FakePlay: a playback that runs is left to go on)
FakePlayGoesOn ==
  /\ Accepted("fake") /\ prepared
  /\ PlayIsDue
  /\ playing' = TRUE
  /\ playback' = IF playback = None THEN [medium |-> generation, left |-> None] ELSE playback
  /\ UNCHANGED <<prepared, loading, position, mpvVars>>

\* The playback before, if any, is cancelled.
FakePlay ==
  /\ Accepted("fake") /\ prepared
  /\ PlayIsDue
  /\ playing' = TRUE
  /\ playback' = [medium |-> generation, left |-> None]
  /\ UNCHANGED <<prepared, loading, position, mpvVars>>

MpvPlay ==
  /\ Accepted("mpv") /\ file # None
  /\ PlayIsDue
  /\ was_playing' = TRUE
  /\ UNCHANGED <<opening, notice, callback, posted, fakeVars>>

FakePause ==
  /\ Accepted("fake")
  /\ playing' = FALSE
  /\ playback' = None
  /\ due' = None
  /\ UNCHANGED <<generation, observing, prepared, loading, position, file, mpvVars,
                 plays, credit, ended, found>>

\* (mutant of FakeStop: the playback is not cancelled)
FakeStopPlaysOn ==
  /\ player = "fake"
  /\ observing' = None
  /\ playing' = FALSE
  /\ position' = 0
  /\ due' = None
  /\ UNCHANGED <<player, generation, prepared, loading, playback, file, mpvVars,
                 plays, credit, ended, found>>

\* stop is a control action: it preempts an observed prepare.
FakeStop ==
  /\ player = "fake"
  /\ observing' = None
  /\ playing' = FALSE
  /\ position' = 0
  /\ playback' = None
  /\ due' = None
  /\ UNCHANGED <<player, generation, prepared, loading, file, mpvVars, plays, credit, ended, found>>

MpvStop ==
  /\ player = "mpv"
  /\ observing' = None
  /\ was_playing' = FALSE
  /\ opening' = None /\ file' = None
  /\ notice' = (notice \/ file # None \/ opening # None)
  /\ due' = None
  /\ UNCHANGED <<player, generation, callback, posted, fakeVars, plays, credit, ended, found>>

Clipped(to) == IF to < 0 THEN 0 ELSE to

FakeSeek(to) ==
  /\ Accepted("fake")
  /\ position' = Clipped(to)
  /\ UNCHANGED <<generation, observing, prepared, loading, playing, playback, file, mpvVars,
                 historyVars>>

-----------------------------------------------------------------------------
\* What goes on by itself.

\* is_action_complete of a prepare.
IsPrepared == IF player = "fake" THEN prepared ELSE file # None

\* The runner's poll finds the prepare complete.
Observe ==
  /\ observing # None /\ IsPrepared
  /\ found' = found \cup {[asked |-> observing, loaded |-> file]}
  /\ observing' = None
  /\ UNCHANGED <<player, generation, file, fakeVars, mpvVars, plays, credit, due, ended>>

\* Or it gives up, after OBSERVE_TIMEOUT_S.
Expire ==
  /\ observing # None
  /\ observing' = None
  /\ UNCHANGED <<player, generation, file, fakeVars, mpvVars, historyVars>>

\* _run_prepare wakes up.
FakeLoaded ==
  /\ loading # None
  /\ loading' = None
  /\ prepared' = (IF loading = generation THEN TRUE ELSE prepared)
  /\ file' = loading
  /\ UNCHANGED <<player, generation, observing, playing, position, playback, mpvVars, historyVars>>

Publish(medium) ==
  /\ ended' = ended \cup {[medium |-> medium, due |-> due]}
  /\ credit' = credit - 1
  /\ due' = None

\* A step of _run_playback: it begins, or a sleep ends.  What is left is counted from
\* the position at the beginning; a later seek does not change it.
FakePlayback ==
  /\ playback # None
  /\ LET begins == playback.left = None
         left == IF begins THEN Duration - position ELSE playback.left - 1
     IN  /\ position' = IF begins THEN position ELSE position + 1
         /\ IF left > 0
            THEN /\ playback' = [playback EXCEPT !.left = left]
                 /\ UNCHANGED <<playing, credit, due, ended>>
            ELSE /\ playback' = None
                 /\ playing' = FALSE
                 /\ IF playback.medium = generation
                    THEN Publish(generation)
                    ELSE UNCHANGED <<credit, due, ended>>
  /\ UNCHANGED <<player, generation, observing, prepared, loading, file, mpvVars, plays, found>>

\* mpv unloads what it has and opens the file, or fails to and goes idle.  A notice
\* of idleness that nobody heard yet may be overtaken by the load.
MpvOpens ==
  /\ opening # None
  /\ \/ file # None /\ file' = None /\ UNCHANGED <<opening, notice>>
     \/ /\ file = None /\ opening' = None
        /\ \/ file' = opening /\ notice' \in {notice, FALSE}
           \/ file' = None /\ notice' = TRUE
  /\ UNCHANGED <<player, generation, observing, fakeVars, was_playing, callback, posted, historyVars>>

\* (mutant of MpvIdle: the flag is not reset)
MpvIdleForgetsReset ==
  /\ \/ /\ callback = "none" /\ notice
        /\ notice' = FALSE
        /\ callback' = (IF was_playing THEN "tested" ELSE "none")
        /\ UNCHANGED <<was_playing, posted>>
     \/ /\ callback = "tested"
        /\ posted' = Append(posted, generation)
        /\ callback' = "none"
        /\ UNCHANGED <<notice, was_playing>>
  /\ UNCHANGED <<player, generation, observing, opening, file, fakeVars, historyVars>>

\* _on_idle_active, on mpv's thread: the test, and then the reset, the generation and
\* the publication put to the loop.
MpvIdle ==
  /\ \/ /\ callback = "none" /\ notice
        /\ notice' = FALSE
        /\ callback' = (IF was_playing THEN "tested" ELSE "none")
        /\ UNCHANGED <<was_playing, posted>>
     \/ /\ callback = "tested"
        /\ was_playing' = FALSE
        /\ posted' = Append(posted, generation)
        /\ callback' = "none"
        /\ UNCHANGED notice
  /\ UNCHANGED <<player, generation, observing, opening, file, fakeVars, historyVars>>

MpvPublish ==
  /\ posted # <<>>
  /\ Publish(Head(posted))
  /\ posted' = Tail(posted)
  /\ UNCHANGED <<player, generation, observing, file, fakeVars, was_playing, opening, notice,
                 callback, plays, found>>

-----------------------------------------------------------------------------
FakeInit ==
  prepared = FALSE /\ loading = None /\ playing = FALSE /\ position = 0 /\ playback = None

\* A player that was just created is idle, and does not say so again.
MpvInit ==
  /\ was_playing = FALSE /\ opening = None /\ notice = FALSE
  /\ callback = "none" /\ posted = <<>>

Init ==
  /\ player \in Players
  /\ generation = 0 /\ observing = None /\ file = None
  /\ FakeInit /\ MpvInit
  /\ plays = 0 /\ credit = 0 /\ due = None /\ ended = {} /\ found = {}

\* The actions of the manifests; mpv's pause and seek change nothing that is seen here.
FakeCommand ==
  \/ FakePrepare \/ FakePlay \/ FakePause \/ FakeStop
  \/ \E to \in -1..Duration : FakeSeek(to)

MpvCommand == MpvPrepare \/ MpvPlay \/ MpvStop

Progress ==
  \/ Observe \/ Expire
  \/ FakeLoaded \/ FakePlayback
  \/ MpvOpens \/ MpvIdle \/ MpvPublish

Next == FakeCommand \/ MpvCommand \/ Progress

\* Sleeping tasks wake up.
Spec == Init /\ [][Next]_vars /\ WF_vars(FakePlayback)

-----------------------------------------------------------------------------
TypeOK ==
  /\ player \in Players
  /\ generation \in 0..MaxMedia
  /\ {observing, loading, opening, file, due} \subseteq Media \cup {None}
  /\ {prepared, playing, was_playing, notice} \subseteq BOOLEAN
  /\ position \in 0..(2 * Duration)
  /\ playback # None => playback.medium \in Media /\ playback.left \in 1..Duration \cup {None}
  /\ callback \in {"none", "tested"}
  /\ posted \in Seq(Media)

\* No play is ended twice, although the flag that says so is set on one thread and
\* reset on another (mpv_adapter.py:162-170), and a playback may be replaced, cancelled
\* or overtaken by another medium (fake_video_player.py:95-115, 159-168).
EndedOncePerPlay == credit >= 0

\* Both adapters, whatever they do in tasks and threads of their own.
PlayerInv == TypeOK /\ EndedOncePerPlay

\* playback.ended is about the medium that was played and is not stopped, paused or
\* replaced since (fake_video_player.py:167; tests/test_video_runtime.py:123).  The
\* simulated player keeps it; mpv's late callback does not.
EndedWasPlaying == player = "fake" => \A e \in ended : e.medium = e.due

\* A prepare that is observed to be complete has its own medium loaded, however it
\* was interleaved with unobserved prepares and stops (fake_video_player.py:98, 136).
PrepareShowsItsMedium == player = "fake" => \A o \in found : o.asked = o.loaded

\* A playback of the simulated player that nobody stops, pauses or replaces ends with
\* an event, from wherever it was sought to (fake_video_player.py:159-168).
PlaybackEnds ==
  \A m \in Media : (player = "fake" /\ due = m) ~> (due # m)
=============================================================================
