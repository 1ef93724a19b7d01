-------------------------------- MODULE AiSessions ---------------------------------
(* What the two halves of the AI assessment share: the teams whose sessions *)
(* are measured (team_cyber_range_progress.team_id).                        *)
CONSTANT Teams
=====================================================================================
