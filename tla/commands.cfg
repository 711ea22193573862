SPECIFICATION Spec
CONSTANTS
    None = None
    Actor = {one, other}
    LeftOut = {"repair", "settings_init", "export_schedule_add", "export_schedule_remove"}
SYMMETRY Symmetric
INVARIANTS ConfigFollowsManifest
PROPERTIES NoUpdateIsLost ConfirmedIsCurrent
