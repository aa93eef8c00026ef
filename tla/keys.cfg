SPECIFICATION Spec
CONSTANT Setups <- MCSetups
INVARIANTS TypeOK NoStuckKeys WindowShowsInput ShownPageExists
PROPERTIES ReleaseNeedsItsPress PageKeyTurnsPage TextCommittedOnce NoKeyOvertakesText
