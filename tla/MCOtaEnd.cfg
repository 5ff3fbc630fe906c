SPECIFICATION Spec
CONSTANTS
    Images <- ThreeImages
    APP_CONFIG_OTA_BUF_SIZE = 5
    APP_CONFIG_OTA_PKT_DATA = 2
    IDX_MOD = 3
    MaxRepeats = 2
PROPERTIES
    EndVouchesForImage
