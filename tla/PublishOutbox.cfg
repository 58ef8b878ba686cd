CONSTANTS
  r1 = r1
  r2 = r2
  profile = profile
  edited = edited
  Relays = {r1, r2}
  Events = {profile, edited}
  Targets <- MCTargets
  Newer <- MCNewer
SPECIFICATION LiveSpec
INVARIANTS TypeOK Durable InFlightTracked
PROPERTY ReplaysGoOn
