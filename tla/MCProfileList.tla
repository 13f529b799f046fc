---------------------------- MODULE MCProfileList ----------------------------
EXTENDS ProfileList

\* Ids are numbers: their order against the creation times is what ties turn on.
MCProfiles  == {1, 3, 4, 5}
MCMasters   == {2}
MCExisting  == {1, 3, 5}
MCChanging  == {3}
MCTimes     == {1, 2}
MCPageSizes == {2}
=============================================================================
