SPECIFICATION Spec
CONSTANT MaxFaults = 2
PROPERTIES NeverSilent FollowsCard
